---- MODULE Spec2Model ----
(***************************************************************************)
(* Model of the CMAF muxer of video-toolbox-sys                            *)
(* (src/src/helpers/cmaf_muxer.rs), of the NAL unit extraction that feeds  *)
(* it (src/src/helpers/nal_extractor.rs) and of the capture pipeline's     *)
(* frame handler (src/examples/webcam_cmaf_stream.rs).                     *)
(*                                                                         *)
(* Buffers (Vec<u8>) are sequences of bytes 0..255 and every box writer    *)
(* produces the bytes the Rust code pushes, in the same order.  The muxer  *)
(* struct is a record; each method is an operator from the struct and the  *)
(* arguments to the new struct and the returned value.                     *)
(*                                                                         *)
(* Integers: TLC integers are 32-bit.  u32 quantities of the model stay    *)
(* below 2^31, i64 timestamps stay in the 32-bit range, and the byte       *)
(* encoders below compute two's complement big-endian bytes with floor     *)
(* division, which is exact on that range.                                 *)
(***************************************************************************)
EXTENDS Integers, Sequences, FiniteSets, TLC

VARIABLES
    muxer,          \* the CmafMuxer struct
    call,           \* the last API call: its name and arguments
    pre,            \* observable muxer state right before the last call
    ret,            \* what the last call returned
    pending_args,   \* history: arguments of the add_frame calls accepted
                    \* since the last returned fragment
    ret_args,       \* history: arguments of the add_frame calls that were
                    \* accepted before the fragment in ret was returned
    emitted,        \* history: number of fragments returned so far
    init_called,    \* history: create_init_segment has been called
    feed            \* the caller of the muxer: its position in a
                    \* keyframe-aligned feed, the state of the capture
                    \* pipeline's handler, or a sweep of parse_avcc_data
                    \* (FeedIdle when the API is driven freely)

vars == <<muxer, call, pre, ret, pending_args, ret_args, emitted, init_called, feed>>

----------------------------------------------------------------------------
(* Bounds of the model.                                                    *)

\* add_frame is not offered once this many samples are pending.
MaxPending == 2
\* No fragment is emitted once this many have been.
MaxFragments == 2

----------------------------------------------------------------------------
(* Bytes.                                                                  *)

Zeros(n) == [i \in 1..n |-> 0]

\* u16::to_be_bytes / i16::to_be_bytes
Be16(x) == <<(x \div 256) % 256, x % 256>>

\* u32::to_be_bytes / i32::to_be_bytes (two's complement for x < 0)
Be32(x) ==
    <<(x \div 16777216) % 256, (x \div 65536) % 256, (x \div 256) % 256, x % 256>>

\* (x as u64).to_be_bytes() for an i64 x: the sign extends over the high word
Be64(x) ==
    LET ext == IF x < 0 THEN 255 ELSE 0
    IN  <<ext, ext, ext, ext>> \o Be32(x)

\* `as i32`: keep the low 32 bits and read them as a signed number
AsI32(x) ==
    LET lo == x % 65536
        hi == (x \div 65536) % 65536
    IN  IF hi >= 32768 THEN (hi - 65536) * 65536 + lo ELSE hi * 65536 + lo

\* a - b for i64 values, as <<high part, low 16 bits>>: the difference of
\* two 32-bit values can need 33 bits, so it is computed on halves
WideSub(a, b) ==
    LET lo == (a % 65536) - (b % 65536)
    IN  <<(a \div 65536) - (b \div 65536) + (lo \div 65536), lo % 65536>>

\* `as i32` of a value given as <<high part, low 16 bits>>
WrapI32(w) ==
    LET hi == w[1] % 65536
    IN  IF hi >= 32768 THEN (hi - 65536) * 65536 + w[2] ELSE hi * 65536 + w[2]

\* Mutant: the quotient rounded toward minus infinity
FloorDiv(a, b) == a \div b

\* Rust's `/` on i64: the quotient truncated toward zero (b > 0)
TruncDiv(a, b) == IF a >= 0 THEN a \div b ELSE -((-a) \div b)

RECURSIVE Concat(_)
Concat(ss) == IF ss = <<>> THEN <<>> ELSE Head(ss) \o Concat(Tail(ss))

RECURSIVE SumLen(_)
SumLen(ss) == IF ss = <<>> THEN 0 ELSE Len(Head(ss)) + SumLen(Tail(ss))

----------------------------------------------------------------------------
(* Four-character codes.                                                   *)

T_ftyp == <<102, 116, 121, 112>>
T_isom == <<105, 115, 111, 109>>
T_iso6 == <<105, 115, 111, 54>>
T_cmfc == <<99, 109, 102, 99>>
T_cmfv == <<99, 109, 102, 118>>
T_avc1 == <<97, 118, 99, 49>>
T_mp41 == <<109, 112, 52, 49>>
T_styp == <<115, 116, 121, 112>>
T_msdh == <<109, 115, 100, 104>>
T_msix == <<109, 115, 105, 120>>
T_moov == <<109, 111, 111, 118>>
T_mvhd == <<109, 118, 104, 100>>
T_trak == <<116, 114, 97, 107>>
T_tkhd == <<116, 107, 104, 100>>
T_mdia == <<109, 100, 105, 97>>
T_mdhd == <<109, 100, 104, 100>>
T_hdlr == <<104, 100, 108, 114>>
T_vide == <<118, 105, 100, 101>>
T_minf == <<109, 105, 110, 102>>
T_vmhd == <<118, 109, 104, 100>>
T_dinf == <<100, 105, 110, 102>>
T_dref == <<100, 114, 101, 102>>
T_url == <<117, 114, 108, 32>>
T_stbl == <<115, 116, 98, 108>>
T_stsd == <<115, 116, 115, 100>>
T_avcC == <<97, 118, 99, 67>>
T_stts == <<115, 116, 116, 115>>
T_stsc == <<115, 116, 115, 99>>
T_stsz == <<115, 116, 115, 122>>
T_stco == <<115, 116, 99, 111>>
T_mvex == <<109, 118, 101, 120>>
T_trex == <<116, 114, 101, 120>>
T_moof == <<109, 111, 111, 102>>
T_mfhd == <<109, 102, 104, 100>>
T_traf == <<116, 114, 97, 102>>
T_tfhd == <<116, 102, 104, 100>>
T_tfdt == <<116, 102, 100, 116>>
T_trun == <<116, 114, 117, 110>>
T_mdat == <<109, 100, 97, 116>>

\* b"VideoHandler\0"
HandlerName == <<86, 105, 100, 101, 111, 72, 97, 110, 100, 108, 101, 114, 0>>
\* b"video-toolbox-sys"
CompressorName ==
    <<118, 105, 100, 101, 111, 45, 116, 111, 111, 108, 98, 111, 120, 45, 115, 121, 115>>

\* The identity matrix of mvhd and tkhd, nine u32 written big-endian.
Matrix ==
    Concat(<<Be32(65536), Be32(0), Be32(0), Be32(0), Be32(65536), Be32(0),
             Be32(0), Be32(0), Be32(1073741824)>>)

\* The tail every box writer ends with:
\*   let size = 8 + content.len(); size as u32 BE, the tag, the content.
BoxOf(tag, content) == Be32(8 + Len(content)) \o tag \o content

----------------------------------------------------------------------------
(* NAL units (nal_extractor.rs).                                           *)

\* Mutant: the type is the whole first byte, the mask is missing
NalUnitUnmasked(data) == [data |-> data, nal_type |-> data[1]]

\* nal_type = nal_data[0] & 0x1F, as parse_avcc_data classifies a unit
NalUnit(data) == [data |-> data, nal_type |-> data[1] % 32]

is_idr(n) == n.nal_type = 5
is_sps(n) == n.nal_type = 7
is_pps(n) == n.nal_type = 8
is_slice(n) == n.nal_type = 5 \/ n.nal_type = 1

----------------------------------------------------------------------------
(* CmafMuxer (cmaf_muxer.rs).                                              *)

CmafConfig(fragment_duration_ms, timescale) ==
    [fragment_duration_ms |-> fragment_duration_ms, timescale |-> timescale]

PendingFrame(data, duration, is_sync, composition_offset) ==
    [data |-> data, duration |-> duration, is_sync |-> is_sync,
     composition_offset |-> composition_offset]

new(config) ==
    [config |-> config, initialized |-> FALSE, width |-> 0, height |-> 0,
     sps |-> <<>>, pps |-> <<>>, pending_frames |-> <<>>,
     sequence_number |-> 1, fragment_base_dts |-> 0, last_dts |-> 0,
     track_id |-> 1]

NoneRet == [tag |-> "None", bytes |-> <<>>]
SomeRet(bytes) == [tag |-> "Some", bytes |-> bytes]
VecRet(bytes) == [tag |-> "Vec", bytes |-> bytes]
PanicRet == [tag |-> "Panic", bytes |-> <<>>]

\* ---- initialization segment boxes ----

write_ftyp ==
    LET brands == <<T_isom, T_iso6, T_cmfc, T_cmfv, T_avc1, T_mp41>>
        size == 8 + 4 + 4 + (Len(brands) * 4)
    IN  Be32(size) \o T_ftyp \o T_isom \o Be32(0) \o Concat(brands)

\* ((x as u32) << 16).to_be_bytes(): the low 16 bits of x, then two zero bytes
Shl16Be(x) == <<(x \div 256) % 256, x % 256, 0, 0>>

write_mvhd(self) ==
    BoxOf(T_mvhd,
          <<0>> \o <<0, 0, 0>>
          \o Be32(0) \o Be32(0) \o Be32(self.config.timescale) \o Be32(0)
          \o Be32(65536) \o Be16(256) \o Zeros(2) \o Zeros(8)
          \o Matrix
          \o Zeros(24) \o Be32(2))

write_tkhd(self) ==
    BoxOf(T_tkhd,
          <<0>> \o <<0, 0, 3>>
          \o Be32(0) \o Be32(0) \o Be32(self.track_id) \o Be32(0) \o Be32(0)
          \o Zeros(8) \o Be16(0) \o Be16(0) \o Be16(0) \o Be16(0)
          \o Matrix
          \o Shl16Be(self.width) \o Shl16Be(self.height))

write_mdhd(self) ==
    BoxOf(T_mdhd,
          <<0>> \o <<0, 0, 0>>
          \o Be32(0) \o Be32(0) \o Be32(self.config.timescale) \o Be32(0)
          \o Be16(21956) \o Be16(0))

write_hdlr ==
    BoxOf(T_hdlr,
          <<0>> \o <<0, 0, 0>> \o Be32(0) \o T_vide \o Zeros(12) \o HandlerName)

write_vmhd ==
    BoxOf(T_vmhd, <<0>> \o <<0, 0, 1>> \o Be16(0) \o Zeros(6))

write_dinf ==
    LET dref_content == <<0>> \o <<0, 0, 0>> \o Be32(1)
                          \o Be32(12) \o T_url \o <<0>> \o <<0, 0, 1>>
    IN  BoxOf(T_dinf, BoxOf(T_dref, dref_content))

\* Mutant: the size is taken before the PPS is appended
write_avcc_size_before_pps(self) ==
    LET head == <<1>>
                \o (IF Len(self.sps) >= 4
                    THEN <<self.sps[2], self.sps[3], self.sps[4]>>
                    ELSE <<100, 0, 31>>)
                \o <<255>>
                \o <<225>> \o Be16(Len(self.sps) % 65536) \o self.sps
                \o <<1>> \o Be16(Len(self.pps) % 65536)
    IN  Be32(8 + Len(head)) \o T_avcC \o head \o self.pps

write_avcc(self) ==
    BoxOf(T_avcC,
          <<1>>
          \o (IF Len(self.sps) >= 4
              THEN <<self.sps[2], self.sps[3], self.sps[4]>>
              ELSE <<100, 0, 31>>)
          \o <<255>>
          \o <<225>> \o Be16(Len(self.sps) % 65536) \o self.sps
          \o <<1>> \o Be16(Len(self.pps) % 65536) \o self.pps)

write_avc1(self) ==
    LET compressor == <<Len(CompressorName)>> \o CompressorName
                        \o Zeros(32 - 1 - Len(CompressorName))
    IN  BoxOf(T_avc1,
              Zeros(6) \o Be16(1)
              \o Be16(0) \o Be16(0) \o Zeros(12)
              \o Be16(self.width % 65536) \o Be16(self.height % 65536)
              \o Be32(4718592) \o Be32(4718592) \o Be32(0) \o Be16(1)
              \o compressor
              \o Be16(24) \o Be16(-1)
              \o write_avcc(self))

write_stsd(self) ==
    BoxOf(T_stsd, <<0>> \o <<0, 0, 0>> \o Be32(1) \o write_avc1(self))

write_empty_stts == BoxOf(T_stts, <<0>> \o <<0, 0, 0>> \o Be32(0))
write_empty_stsc == BoxOf(T_stsc, <<0>> \o <<0, 0, 0>> \o Be32(0))
write_empty_stsz == BoxOf(T_stsz, <<0>> \o <<0, 0, 0>> \o Be32(0) \o Be32(0))
write_empty_stco == BoxOf(T_stco, <<0>> \o <<0, 0, 0>> \o Be32(0))

write_stbl(self) ==
    BoxOf(T_stbl,
          write_stsd(self) \o write_empty_stts \o write_empty_stsc
          \o write_empty_stsz \o write_empty_stco)

write_minf(self) ==
    BoxOf(T_minf, write_vmhd \o write_dinf \o write_stbl(self))

write_mdia(self) ==
    BoxOf(T_mdia, write_mdhd(self) \o write_hdlr \o write_minf(self))

write_trak(self) ==
    BoxOf(T_trak, write_tkhd(self) \o write_mdia(self))

write_trex(self) ==
    BoxOf(T_trex,
          <<0>> \o <<0, 0, 0>> \o Be32(self.track_id) \o Be32(1)
          \o Be32(0) \o Be32(0) \o Be32(0))

write_mvex(self) == BoxOf(T_mvex, write_trex(self))

write_moov(self) ==
    BoxOf(T_moov, write_mvhd(self) \o write_trak(self) \o write_mvex(self))

\* Mutant: the open fragment is dropped
create_init_segment_resets(self, sps, pps, width, height) ==
    LET s1 == [self EXCEPT !.sps = sps, !.pps = pps, !.width = width,
                           !.height = height, !.initialized = TRUE,
                           !.pending_frames = <<>>]
    IN  [self |-> s1, ret |-> write_ftyp \o write_moov(s1)]

create_init_segment(self, sps, pps, width, height) ==
    LET s1 == [self EXCEPT !.sps = sps, !.pps = pps, !.width = width,
                           !.height = height, !.initialized = TRUE]
    IN  [self |-> s1, ret |-> write_ftyp \o write_moov(s1)]

\* ---- media segment boxes ----

write_styp ==
    LET brands == <<T_msdh, T_msix, T_cmfc, T_cmfv>>
        size == 8 + 4 + 4 + (Len(brands) * 4)
    IN  Be32(size) \o T_styp \o T_cmfv \o Be32(0) \o Concat(brands)

write_mfhd(self) ==
    BoxOf(T_mfhd, <<0>> \o <<0, 0, 0>> \o Be32(self.sequence_number))

write_tfhd(self) ==
    BoxOf(T_tfhd, <<0>> \o <<2, 0, 0>> \o Be32(self.track_id))

\* Mutant: the decode time of the last frame instead of the fragment's base
write_tfdt_last_dts(self) ==
    BoxOf(T_tfdt, <<1>> \o <<0, 0, 0>> \o Be64(self.last_dts))

write_tfdt(self) ==
    BoxOf(T_tfdt, <<1>> \o <<0, 0, 0>> \o Be64(self.fragment_base_dts))

\* Mutant: every sample is flagged as a sync sample
trun_sample_all_sync(frame) ==
    LET flags == 33554432
    IN  Be32(frame.duration) \o Be32(Len(frame.data)) \o Be32(flags)
            \o Be32(frame.composition_offset)

trun_sample(frame) ==
    LET flags == IF frame.is_sync
                 THEN 33554432   \* 0x02000000
                 ELSE 16842752   \* 0x01010000
    IN  Be32(frame.duration) \o Be32(Len(frame.data)) \o Be32(flags)
            \o Be32(frame.composition_offset)

\* Mutant: tfdt sized as a version-0 box (32-bit time)
trun_data_offset_short_tfdt(sample_count) ==
    LET trun_content_size == 4 + 4 + 4 + (sample_count * 16)
        trun_size == 8 + trun_content_size
        tfhd_size == 8 + 8
        tfdt_size == 8 + 8
        traf_size == 8 + tfhd_size + tfdt_size + trun_size
        mfhd_size == 8 + 8
        moof_size == 8 + mfhd_size + traf_size
    IN  moof_size + 8

\* Mutant: data_offset counted from the start of the buffer, styp included
trun_data_offset_from_styp(sample_count) ==
    LET trun_content_size == 4 + 4 + 4 + (sample_count * 16)
        trun_size == 8 + trun_content_size
        tfhd_size == 8 + 8
        tfdt_size == 8 + 12
        traf_size == 8 + tfhd_size + tfdt_size + trun_size
        mfhd_size == 8 + 8
        moof_size == 8 + mfhd_size + traf_size
    IN  Len(write_styp) + moof_size + 8

\* The size arithmetic of write_trun: data_offset from the sample count.
trun_data_offset(sample_count) ==
    LET trun_content_size == 4 + 4 + 4 + (sample_count * 16)
        trun_size == 8 + trun_content_size
        tfhd_size == 8 + 8
        tfdt_size == 8 + 12
        traf_size == 8 + tfhd_size + tfdt_size + trun_size
        mfhd_size == 8 + 8
        moof_size == 8 + mfhd_size + traf_size
    IN  moof_size + 8

write_trun(self, moof_offset) ==
    LET sample_count == Len(self.pending_frames)
        data_offset == trun_data_offset(sample_count)
        content == <<0>> \o <<0, 15, 1>> \o Be32(sample_count) \o Be32(data_offset)
                     \o Concat([i \in 1..sample_count |->
                                   trun_sample(self.pending_frames[i])])
    IN  BoxOf(T_trun, content)

\* buf is the moof content written so far (the mfhd box)
write_traf(self, buf) ==
    BoxOf(T_traf, write_tfhd(self) \o write_tfdt(self) \o write_trun(self, Len(buf)))

write_moof(self) ==
    LET mfhd == write_mfhd(self)
    IN  BoxOf(T_moof, mfhd \o write_traf(self, mfhd))

\* Mutant: the declared size leaves out the 8-byte header
write_mdat_payload_size(self) ==
    LET datas == [i \in 1..Len(self.pending_frames) |-> self.pending_frames[i].data]
        total_data_size == SumLen(datas)
    IN  Be32(total_data_size) \o T_mdat \o Concat(datas)

\* Mutant: the payloads are written last sample first
write_mdat_reversed(self) ==
    LET n == Len(self.pending_frames)
        datas == [i \in 1..n |-> self.pending_frames[n + 1 - i].data]
        total_data_size == SumLen(datas)
        size == 8 + total_data_size
    IN  Be32(size) \o T_mdat \o Concat(datas)

write_mdat(self) ==
    LET datas == [i \in 1..Len(self.pending_frames) |-> self.pending_frames[i].data]
        total_data_size == SumLen(datas)
        size == 8 + total_data_size
    IN  Be32(size) \o T_mdat \o Concat(datas)

\* Mutant: the pending frames are not cleared
flush_fragment_keeps_pending(self) ==
    [self |-> [self EXCEPT !.sequence_number = @ + 1],
     ret |-> write_styp \o write_moof(self) \o write_mdat(self)]

\* Mutant: the sequence number is incremented before the fragment is written
flush_fragment_increments_first(self) ==
    LET s1 == [self EXCEPT !.sequence_number = @ + 1]
    IN  [self |-> [s1 EXCEPT !.pending_frames = <<>>],
         ret |-> write_styp \o write_moof(s1) \o write_mdat(s1)]

flush_fragment(self) ==
    [self |-> [self EXCEPT !.sequence_number = @ + 1, !.pending_frames = <<>>],
     ret |-> write_styp \o write_moof(self) \o write_mdat(self)]

\* Mutant: every NAL unit is copied, whatever its type
RECURSIVE nal_units_to_avcc_unfiltered(_)
nal_units_to_avcc_unfiltered(nal_units) ==
    IF nal_units = <<>> THEN <<>>
    ELSE LET nal == Head(nal_units)
         IN  Be32(Len(nal.data)) \o nal.data
                 \o nal_units_to_avcc_unfiltered(Tail(nal_units))

RECURSIVE nal_units_to_avcc(_)
nal_units_to_avcc(nal_units) ==
    IF nal_units = <<>> THEN <<>>
    ELSE LET nal == Head(nal_units)
         IN  (IF is_slice(nal) THEN Be32(Len(nal.data)) \o nal.data ELSE <<>>)
                 \o nal_units_to_avcc(Tail(nal_units))

\* Mutant: the quotient is rounded to the nearest millisecond
fragment_duration_rounded(self, dts) ==
    TruncDiv(2 * (dts - self.fragment_base_dts) * 1000 + self.config.timescale,
             2 * self.config.timescale)

\* (dts - fragment_base_dts) * 1000 / timescale as i64
fragment_duration(self, dts) ==
    TruncDiv((dts - self.fragment_base_dts) * 1000, self.config.timescale)

\* Mutant: an empty fragment is flushed too
should_flush_on_empty(self, dts, is_keyframe) ==
    is_keyframe /\ fragment_duration(self, dts) >= self.config.fragment_duration_ms

\* Mutant: the threshold must be exceeded, not reached
should_flush_strict(self, dts, is_keyframe) ==
    IF self.pending_frames = <<>> THEN FALSE
    ELSE is_keyframe /\ fragment_duration(self, dts) > self.config.fragment_duration_ms

should_flush(self, dts, is_keyframe) ==
    IF self.pending_frames = <<>> THEN FALSE
    ELSE is_keyframe /\ fragment_duration(self, dts) >= self.config.fragment_duration_ms

\* Mutant: a frame without slice data is not stored
add_frame_body_skips_empty(self, nal_units, pts, dts, duration, is_keyframe) ==
    IF self.pending_frames # <<>> /\ self.config.timescale = 0
    THEN [self |-> self, ret |-> PanicRet]
    ELSE
    LET flushed == IF should_flush(self, dts, is_keyframe)
                   THEN LET f == flush_fragment(self)
                        IN  [self |-> f.self, ret |-> SomeRet(f.ret)]
                   ELSE [self |-> self, ret |-> NoneRet]
        s1 == flushed.self
        data == nal_units_to_avcc(nal_units)
        s2 == IF s1.pending_frames = <<>>
              THEN [s1 EXCEPT !.fragment_base_dts = dts] ELSE s1
        composition_offset == WrapI32(WideSub(pts, dts))
        s3 == IF data = <<>> THEN [s2 EXCEPT !.last_dts = dts]
              ELSE [s2 EXCEPT !.pending_frames =
                  Append(@, PendingFrame(data, duration, is_keyframe, composition_offset)),
                         !.last_dts = dts]
    IN  [self |-> s3, ret |-> flushed.ret]

\* Mutant: fragment_base_dts is set for the first fragment only
add_frame_body_stale_base(self, nal_units, pts, dts, duration, is_keyframe) ==
    IF self.pending_frames # <<>> /\ self.config.timescale = 0
    THEN [self |-> self, ret |-> PanicRet]
    ELSE
    LET flushed == IF should_flush(self, dts, is_keyframe)
                   THEN LET f == flush_fragment(self)
                        IN  [self |-> f.self, ret |-> SomeRet(f.ret)]
                   ELSE [self |-> self, ret |-> NoneRet]
        s1 == flushed.self
        data == nal_units_to_avcc(nal_units)
        s2 == IF s1.pending_frames = <<>> /\ s1.sequence_number = 1
              THEN [s1 EXCEPT !.fragment_base_dts = dts] ELSE s1
        composition_offset == WrapI32(WideSub(pts, dts))
        s3 == [s2 EXCEPT !.pending_frames =
                  Append(@, PendingFrame(data, duration, is_keyframe, composition_offset)),
                         !.last_dts = dts]
    IN  [self |-> s3, ret |-> flushed.ret]

\* add_frame past the initialized check
add_frame_body(self, nal_units, pts, dts, duration, is_keyframe) ==
    IF self.pending_frames # <<>> /\ self.config.timescale = 0
    THEN \* the division panics before anything is written
         [self |-> self, ret |-> PanicRet]
    ELSE
    LET flushed == IF should_flush(self, dts, is_keyframe)
                   THEN LET f == flush_fragment(self)
                        IN  [self |-> f.self, ret |-> SomeRet(f.ret)]
                   ELSE [self |-> self, ret |-> NoneRet]
        s1 == flushed.self
        data == nal_units_to_avcc(nal_units)
        s2 == IF s1.pending_frames = <<>>
              THEN [s1 EXCEPT !.fragment_base_dts = dts] ELSE s1
        composition_offset == WrapI32(WideSub(pts, dts))
        s3 == [s2 EXCEPT !.pending_frames =
                  Append(@, PendingFrame(data, duration, is_keyframe, composition_offset)),
                         !.last_dts = dts]
    IN  [self |-> s3, ret |-> flushed.ret]

\* Mutant: the initialized check is missing
add_frame_unchecked(self, nal_units, pts, dts, duration, is_keyframe) ==
    add_frame_body(self, nal_units, pts, dts, duration, is_keyframe)

add_frame(self, nal_units, pts, dts, duration, is_keyframe) ==
    IF ~self.initialized THEN [self |-> self, ret |-> NoneRet]
    ELSE add_frame_body(self, nal_units, pts, dts, duration, is_keyframe)

\* Mutant: a flush closes the muxer
flush_closes(self) ==
    IF self.pending_frames = <<>> THEN [self |-> self, ret |-> NoneRet]
    ELSE LET f == flush_fragment(self)
         IN  [self |-> [f.self EXCEPT !.initialized = FALSE],
              ret |-> SomeRet(f.ret)]

\* Mutant: a fragment is written even when nothing is pending
flush_unconditional(self) ==
    LET f == flush_fragment(self)
    IN  [self |-> f.self, ret |-> SomeRet(f.ret)]

flush(self) ==
    IF self.pending_frames = <<>> THEN [self |-> self, ret |-> NoneRet]
    ELSE LET f == flush_fragment(self)
         IN  [self |-> f.self, ret |-> SomeRet(f.ret)]

sequence_number(self) == self.sequence_number
is_initialized(self) == self.initialized
pending_frame_count(self) == Len(self.pending_frames)

----------------------------------------------------------------------------
(* Inputs.                                                                 *)

\* Configurations (fragment_duration_ms, timescale) the muxer is built with.
Configs == {CmafConfig(0, 3000), CmafConfig(1000, 3)}

\* Parameter sets and dimensions handed to create_init_segment.
ParamSets ==
    {[sps |-> <<103, 100, 0, 31, 172>>, pps |-> <<104, 238>>,
      width |-> 1280, height |-> 720],
     [sps |-> <<103, 66>>, pps |-> <<>>, width |-> 65537, height |-> 0]}

NalIdr == NalUnit(<<101, 136>>)
NalIdr2 == NalUnit(<<37>>)
NalNonIdr == NalUnit(<<65, 154, 1>>)
NalSps == NalUnit(<<103, 100, 0, 31>>)
NalPps == NalUnit(<<104, 238>>)
NalSei == NalUnit(<<6, 5>>)

\* Access units: the NAL units of a frame, its duration, pts - dts and the
\* sync flag the caller passes (add_frame takes the flag as given: it is not
\* derived from the NAL unit types).
FrameKinds ==
    {[nal_units |-> <<NalSps, NalPps, NalIdr, NalNonIdr>>, duration |-> 3000,
      pts_offset |-> 2, is_keyframe |-> TRUE],
     [nal_units |-> <<NalSei, NalIdr2>>, duration |-> 2, pts_offset |-> -1,
      is_keyframe |-> FALSE],
     [nal_units |-> <<NalSei>>, duration |-> 0, pts_offset |-> 0,
      is_keyframe |-> FALSE]}

\* Decode timestamps passed to add_frame, in any order.
DtsValues == {-1, 0, 3}

FrameArgs(k, dts) ==
    [nal_units |-> k.nal_units, pts |-> dts + k.pts_offset, dts |-> dts,
     duration |-> k.duration, is_keyframe |-> k.is_keyframe]

NoArgs ==
    [nal_units |-> <<>>, pts |-> 0, dts |-> 0, duration |-> 0, is_keyframe |-> FALSE]

NoParams == [sps |-> <<>>, pps |-> <<>>, width |-> 0, height |-> 0]

Call(op, frame, params) == [op |-> op, frame |-> frame, params |-> params]

\* What the public accessors and the next call's decisions show of a muxer.
Observe(self) ==
    [initialized |-> is_initialized(self),
     pending_frame_count |-> pending_frame_count(self),
     sequence_number |-> sequence_number(self),
     fragment_base_dts |-> self.fragment_base_dts]

----------------------------------------------------------------------------
(* The muxer driven through its public API.                                *)

InitWith(configs) ==
    /\ \E c \in configs : muxer = new(c)
    /\ call = Call("new", NoArgs, NoParams)
    /\ pre = Observe(muxer)
    /\ ret = NoneRet
    /\ pending_args = <<>>
    /\ ret_args = <<>>
    /\ emitted = 0
    /\ init_called = FALSE

FeedIdle ==
    [phase |-> "api", scenario |-> 0, group_sizes |-> <<>>, key_dts |-> 0,
     last_dts |-> 0]

Init == InitWith(Configs) /\ feed = FeedIdle

\* Bookkeeping shared by the calls: r is the method's result on muxer.
Returned(op, frame, params, r) ==
    /\ muxer' = r.self
    /\ ret' = r.ret
    /\ call' = Call(op, frame, params)
    /\ pre' = Observe(muxer)
    /\ emitted' = IF r.ret.tag = "Some" THEN emitted + 1 ELSE emitted
    /\ ret_args' = IF r.ret.tag = "Some" THEN pending_args ELSE <<>>
    /\ init_called' = (init_called \/ op = "create_init_segment")

DoCreateInitSegment(p) ==
    LET r == create_init_segment(muxer, p.sps, p.pps, p.width, p.height)
    IN  /\ Returned("create_init_segment", NoArgs, p,
                    [self |-> r.self, ret |-> VecRet(r.ret)])
        /\ UNCHANGED pending_args

DoAddFrame(a) ==
    LET r == add_frame(muxer, a.nal_units, a.pts, a.dts, a.duration, a.is_keyframe)
        accepted == init_called /\ r.ret.tag # "Panic"
    IN  /\ Returned("add_frame", a, NoParams, r)
        /\ pending_args' = IF ~accepted THEN pending_args
                           ELSE IF r.ret.tag = "Some" THEN <<a>>
                           ELSE Append(pending_args, a)

DoFlush ==
    LET r == flush(muxer)
    IN  /\ Returned("flush", NoArgs, NoParams, r)
        /\ pending_args' = IF r.ret.tag = "Some" THEN <<>> ELSE pending_args

\* The bounds: no more than MaxPending samples pending, MaxFragments emitted.
WithinBounds ==
    /\ pending_frame_count(muxer') <= MaxPending
    /\ emitted' <= MaxFragments

CreateInitSegment ==
    /\ \E p \in ParamSets : DoCreateInitSegment(p)
    /\ UNCHANGED feed

AddFrame ==
    /\ \E k \in FrameKinds, dts \in DtsValues : DoAddFrame(FrameArgs(k, dts))
    /\ WithinBounds
    /\ UNCHANGED feed

Flush == DoFlush /\ WithinBounds /\ UNCHANGED feed

Next == CreateInitSegment \/ AddFrame \/ Flush

Spec == Init /\ [][Next]_vars

----------------------------------------------------------------------------
(* create_init_segment over a wider range of parameter sets and            *)
(* dimensions.                                                             *)

SpsValues == {<<>>, <<103>>, <<103, 66, 0>>, <<103, 100, 0, 31>>,
              <<103, 100, 0, 31, 172, 217>>}
PpsValues == {<<>>, <<104>>, <<104, 238, 60, 128>>}
Widths == {0, 1280, 65537}
Heights == {0, 720}

InitAny == InitWith(Configs \cup {CmafConfig(2000, 90000)}) /\ feed = FeedIdle

CreateInitSegmentAny ==
    /\ \E sps \in SpsValues, pps \in PpsValues, w \in Widths, h \in Heights :
          DoCreateInitSegment([sps |-> sps, pps |-> pps, width |-> w, height |-> h])
    /\ UNCHANGED feed

NextInit == CreateInitSegmentAny

SpecInit == InitAny /\ [][NextInit]_vars

----------------------------------------------------------------------------
(* A caller that feeds keyframe-aligned groups in non-decreasing DTS order *)
(* and ends with one flush(): every group starts with a keyframe, holds no *)
(* other keyframe, and starts at least the target duration after the      *)
(* previous group started.                                                 *)

\* the truncated quotient (d * 1000) / timescale is at least ms (ms >= 0)
ElapsedMsAtLeast(d, timescale, ms) ==
    IF ms = 0 THEN d * 1000 > -timescale ELSE d * 1000 >= ms * timescale

\* Frames fed in a scenario whose group lengths are chosen freely.
MaxFeed == 4

\* The scenario of the specification's example: 60 frames at 30 fps in a
\* 90000 timescale, keyframes at frames 0 and 30, target duration 1000 ms.
ExampleScenario ==
    [config |-> CmafConfig(1000, 90000), steps |-> {3000}, key_every |-> 30,
     frames |-> 60]

Scenarios ==
    {ExampleScenario,
     [config |-> CmafConfig(2, 1000), steps |-> {0, 1, 2}, key_every |-> 0,
      frames |-> MaxFeed],
     [config |-> CmafConfig(1000, 3), steps |-> {1, 3}, key_every |-> 0,
      frames |-> MaxFeed]}

ExampleParams ==
    [sps |-> <<103, 100, 0, 31, 172>>, pps |-> <<104, 238>>,
     width |-> 1280, height |-> 720]

RECURSIVE Sum(_)
Sum(ns) == IF ns = <<>> THEN 0 ELSE Head(ns) + Sum(Tail(ns))

Fed == Sum(feed.group_sizes)

\* the n-th frame (from 0) of a feed: one slice NAL unit that carries n
FeedFrameArgs(n, dts, duration, key) ==
    [nal_units |-> <<NalUnit(<<IF key THEN 101 ELSE 65, n>>)>>,
     pts |-> dts, dts |-> dts, duration |-> duration, is_keyframe |-> key]

InitGroups ==
    /\ \E sc \in Scenarios :
          /\ InitWith({sc.config})
          /\ feed = [phase |-> "init", scenario |-> sc, group_sizes |-> <<>>,
                     key_dts |-> 0, last_dts |-> 0]

FeedInit ==
    /\ feed.phase = "init"
    /\ DoCreateInitSegment(ExampleParams)
    /\ feed' = [feed EXCEPT !.phase = "feed"]

FeedFrame ==
    /\ feed.phase = "feed"
    /\ Fed < feed.scenario.frames
    /\ \E step \in feed.scenario.steps, key \in BOOLEAN :
          LET sc == feed.scenario
              n == Fed
              dts == IF n = 0 THEN 0 ELSE feed.last_dts + step
              due == ElapsedMsAtLeast(dts - feed.key_dts, sc.config.timescale,
                                      sc.config.fragment_duration_ms)
          IN  /\ IF n = 0 THEN key
                 ELSE IF sc.key_every > 0 THEN key = (n % sc.key_every = 0)
                 ELSE key => due
              /\ DoAddFrame(FeedFrameArgs(n, dts, step, key))
              /\ feed' = [feed EXCEPT
                    !.group_sizes = IF key THEN Append(@, 1)
                                    ELSE [@ EXCEPT ![Len(@)] = @ + 1],
                    !.key_dts = IF key THEN dts ELSE @,
                    !.last_dts = dts]

FeedFlush ==
    /\ feed.phase = "feed"
    /\ Len(feed.group_sizes) >= 2
    /\ feed.scenario.key_every > 0 => Fed = feed.scenario.frames
    /\ DoFlush
    /\ feed' = [feed EXCEPT !.phase = "done"]

NextGroups == FeedInit \/ FeedFrame \/ FeedFlush

SpecGroups == InitGroups /\ [][NextGroups]_vars

----------------------------------------------------------------------------
(* The API driven with presentation timestamps far from the decode         *)
(* timestamps, up to the ends of the range the model's integers cover.     *)

OffsetConfig == CmafConfig(1000, 90000)

\* add_frame arguments: pts - dts of 0, -5, 2^31 - 1, 2^31 + 1 and -(2^31 + 1)
OffsetFrames ==
    {[nal_units |-> <<NalIdr>>, pts |-> 0, dts |-> 0, duration |-> 3000,
      is_keyframe |-> TRUE],
     [nal_units |-> <<NalNonIdr>>, pts |-> -5, dts |-> 0, duration |-> 3000,
      is_keyframe |-> FALSE],
     [nal_units |-> <<NalNonIdr>>, pts |-> 2147483647, dts |-> 0, duration |-> 3000,
      is_keyframe |-> FALSE],
     [nal_units |-> <<NalNonIdr>>, pts |-> 2147483647, dts |-> -2, duration |-> 3000,
      is_keyframe |-> FALSE],
     [nal_units |-> <<NalNonIdr>>, pts |-> -2147483647, dts |-> 2, duration |-> 3000,
      is_keyframe |-> FALSE]}

InitOffsets == InitWith({OffsetConfig}) /\ feed = FeedIdle

AddFrameOffsets ==
    /\ \E a \in OffsetFrames : DoAddFrame(a)
    /\ WithinBounds
    /\ UNCHANGED feed

NextOffsets == CreateInitSegment \/ AddFrameOffsets \/ Flush

SpecOffsets == InitOffsets /\ [][NextOffsets]_vars

----------------------------------------------------------------------------
(* The API driven on an initialized muxer with a record of the run: every  *)
(* frame add_frame took, every fragment returned, and whether the decode   *)
(* timestamps came in non-decreasing order so far.                         *)

\* add_frame calls in a run.
MaxAccepted == 3

HistoryConfigs == {CmafConfig(1, 3000), CmafConfig(0, 3000)}

\* A keyframe of one slice, and a frame without any slice (empty payload);
\* step is the frame's dts minus the dts of the frame before it.
HistoryKinds ==
    {[nal_units |-> <<NalSps, NalIdr>>, pts_offset |-> 1, is_keyframe |-> TRUE,
      step |-> 3],
     [nal_units |-> <<NalSps, NalIdr>>, pts_offset |-> 1, is_keyframe |-> TRUE,
      step |-> 2],
     [nal_units |-> <<NalSps, NalIdr>>, pts_offset |-> 1, is_keyframe |-> TRUE,
      step |-> -2],
     [nal_units |-> <<NalSei>>, pts_offset |-> 0, is_keyframe |-> FALSE,
      step |-> 2]}

\* the n-th add_frame call of a run (from 0); the duration tells the calls
\* of a run apart
HistoryFrame(n, kind, dts) ==
    [nal_units |-> kind.nal_units, pts |-> dts + kind.pts_offset, dts |-> dts,
     duration |-> 2 * n + (IF kind.is_keyframe THEN 1 ELSE 2),
     is_keyframe |-> kind.is_keyframe]

\* a fragment as returned, the call that returned it, the dts of the
\* add_frame that triggered it, and the frames that went into it
Fragment(bytes, op, dts, args) ==
    [bytes |-> bytes, op |-> op, dts |-> dts, args |-> args]

InitHistory ==
    /\ InitWith(HistoryConfigs)
    /\ feed = [phase |-> "history", adds |-> 0, reinit |-> FALSE, last_dts |-> 0,
               monotone |-> TRUE, accepted |-> <<>>,
               fragments |-> <<>>]

\* create_init_segment, and once more while a fragment is open
CreateInitHistory ==
    /\ feed.phase = "history"
    /\ ~muxer.initialized \/ (~feed.reinit /\ muxer.pending_frames # <<>>)
    /\ DoCreateInitSegment([sps |-> <<103, 66, 0,
                                      IF muxer.initialized THEN 31 ELSE 30>>,
                            pps |-> <<104, 206>>, width |-> 640,
                            height |-> 480])
    /\ feed' = [feed EXCEPT !.reinit = muxer.initialized]

AddFrameHistory ==
    /\ feed.phase = "history"
    /\ muxer.initialized
    /\ feed.adds < MaxAccepted
    /\ \E kind \in HistoryKinds :
          LET step == kind.step
              dts == feed.last_dts + step
              a == HistoryFrame(feed.adds, kind, dts)
              r == add_frame(muxer, a.nal_units, a.pts, a.dts, a.duration,
                             a.is_keyframe)
          IN  /\ DoAddFrame(a)
              /\ feed' = [feed EXCEPT
                    !.adds = @ + 1,
                    !.last_dts = dts,
                    !.monotone = @ /\ (feed.adds = 0 \/ step >= 0),
                    !.accepted = IF muxer.initialized /\ r.ret.tag # "Panic"
                                 THEN Append(@, a) ELSE @,
                    !.fragments = IF r.ret.tag = "Some"
                                  THEN Append(@, Fragment(r.ret.bytes, "add_frame",
                                                          dts, pending_args))
                                  ELSE @]

FlushHistory ==
    /\ feed.phase = "history"
    /\ DoFlush
    /\ LET r == flush(muxer)
       IN  feed' = [feed EXCEPT
              !.fragments = IF r.ret.tag = "Some"
                            THEN Append(@, Fragment(r.ret.bytes, "flush",
                                                    feed.last_dts, pending_args))
                            ELSE @]

NextHistory == CreateInitHistory \/ AddFrameHistory \/ FlushHistory

SpecHistory == InitHistory /\ [][NextHistory]_vars

----------------------------------------------------------------------------
(* The rescaling of add_frame at the ends of its range: a timescale of 0,  *)
(* and decode timestamps whose distance times 1000 leaves i64.  An i64 is  *)
(* held here as <<a, b, c>> for a * 2^42 + b * 2^21 + c with b and c in    *)
(* 0 .. 2^21 - 1; it is in range when -2^21 <= a < 2^21.                   *)

I64(a, b, c) ==
    LET b1 == b + (c \div 2097152)
    IN  <<a + (b1 \div 2097152), b1 % 2097152, c % 2097152>>

\* (dts - fragment_base_dts) * 1000 / timescale as i64 on a muxer with a
\* sample pending.  An overflowing `-` or `*` panics in a build with
\* overflow checks and wraps around in one without; `/` panics on 0 in
\* both.
rescale_pending(fragment_base_dts, dts, timescale, overflow_checks) ==
    LET InI64(x) == x[1] >= -2097152 /\ x[1] < 2097152
        \* the exact difference and product, before any check or wrap-around
        diff == I64(dts[1] - fragment_base_dts[1], dts[2] - fragment_base_dts[2],
                    dts[3] - fragment_base_dts[3])
        product == I64(diff[1] * 1000, diff[2] * 1000, diff[3] * 1000)
        overflows == ~InI64(diff) \/ ~InI64(product)
    IN  IF overflows /\ overflow_checks
        THEN [tag |-> "Panic", why |-> "overflow"]
        ELSE IF timescale = 0
        THEN [tag |-> "Panic", why |-> "divide by zero"]
        ELSE [tag |-> IF overflows THEN "Wrapped" ELSE "Ok", why |-> "none"]

FaultConfigs == {CmafConfig(1000, 0), CmafConfig(1000, 90000)}

\* <<fragment_base_dts, dts>>: 5 ticks apart; 2097 * 2^42 apart (the
\* largest multiple of 2^42 whose product with 1000 fits) and 2098 * 2^42;
\* from 0 to i64::MAX; from i64::MIN to 0, to 5 and to i64::MAX; from -1 to
\* i64::MAX.
FarPairs ==
    {<<I64(0, 0, 0), I64(0, 0, 5)>>,
     <<I64(0, 0, 0), I64(2097, 0, 0)>>,
     <<I64(0, 0, 0), I64(2098, 0, 0)>>,
     <<I64(0, 0, 0), I64(2097151, 2097151, 2097151)>>,
     <<I64(-2097152, 0, 0), I64(0, 0, 0)>>,
     <<I64(-2097152, 0, 0), I64(0, 0, 5)>>,
     <<I64(-2097152, 0, 0), I64(2097151, 2097151, 2097151)>>,
     <<I64(0, 0, -1), I64(2097151, 2097151, 2097151)>>}

InitFaults ==
    /\ InitWith(FaultConfigs)
    /\ feed = [phase |-> "api", scenario |-> 0, group_sizes |-> <<>>,
               key_dts |-> 0, last_dts |-> 0,
               far |-> [tag |-> "None", why |-> "none"],
               far_base |-> I64(0, 0, 0), far_dts |-> I64(0, 0, 0)]

\* add_frame as far as the rescaling, on a muxer with a sample pending
\* whose fragment began at fragment_base_dts
RescaleFar ==
    /\ feed.far.tag = "None"
    /\ pending_frame_count(muxer) = 1 /\ emitted = 0
    /\ \E pair \in FarPairs, overflow_checks \in BOOLEAN :
          feed' = [feed EXCEPT
             !.far = rescale_pending(pair[1], pair[2],
                                     muxer.config.timescale, overflow_checks),
             !.far_base = pair[1], !.far_dts = pair[2]]
    /\ UNCHANGED <<muxer, call, pre, ret, pending_args, ret_args, emitted,
                   init_called>>

\* the API as in Spec, until the far rescaling has run
NextFaults ==
    \/ feed.far.tag = "None" /\ (CreateInitSegment \/ AddFrame \/ Flush)
    \/ RescaleFar

SpecFaults == InitFaults /\ [][NextFaults]_vars

----------------------------------------------------------------------------
(* NAL unit extraction (nal_extractor.rs).  A sample buffer is the record   *)
(* of what the CoreMedia accessors return for it.                          *)

Ok(nal_units) == [tag |-> "Ok", nal_units |-> nal_units]
Err(e) == [tag |-> e, nal_units |-> <<>>]
\* nal_data[0] on an empty slice: index out of bounds
IndexPanic == [tag |-> "Panic", nal_units |-> <<>>]

\* Mutant: the length field is read least significant byte first
RECURSIVE from_le_bytes(_)
from_le_bytes(bytes) ==
    IF bytes = <<>> THEN 0
    ELSE bytes[1] + 256 * (IF Len(bytes) = 1 THEN 0
                           ELSE IF from_le_bytes(Tail(bytes)) >= 8388608
                                THEN 8388607
                                ELSE from_le_bytes(Tail(bytes)))

\* u32::from_be_bytes / u16::from_be_bytes / a single byte, as usize.  A
\* 32-bit length of 2^31 or more is kept as 2^31 - 1: it exceeds every
\* buffer length either way.
RECURSIVE from_be_bytes(_)
from_be_bytes(bytes) ==
    IF Len(bytes) = 4 /\ bytes[1] >= 128 THEN 2147483647
    ELSE IF bytes = <<>> THEN 0
    ELSE from_be_bytes(SubSeq(bytes, 1, Len(bytes) - 1)) * 256 + bytes[Len(bytes)]

\* The while loop of parse_avcc_data from `offset` on.  offset + nal_length
\* cannot overflow a 64-bit usize; the comparison is written as a
\* subtraction to stay in range here.
RECURSIVE parse_avcc_loop(_, _, _, _)
parse_avcc_loop(data, nal_length_size, offset, nal_units) ==
    LET total_length == Len(data)
    IN  IF ~(offset + nal_length_size <= total_length) THEN Ok(nal_units)
        ELSE IF nal_length_size \notin {1, 2, 4} THEN Err("InvalidNalLength")
        ELSE LET nal_length == from_be_bytes(SubSeq(data, offset + 1,
                                                     offset + nal_length_size))
                 offset1 == offset + nal_length_size
                 nal_data == SubSeq(data, offset1 + 1, offset1 + nal_length)
             IN  IF nal_length > total_length - offset1 THEN Err("BufferTooSmall")
                 ELSE IF nal_length = 0 THEN IndexPanic
                 ELSE parse_avcc_loop(data, nal_length_size, offset1 + nal_length,
                                      Append(nal_units, NalUnit(nal_data)))

parse_avcc_data(data, nal_length_size) ==
    parse_avcc_loop(data, nal_length_size, 0, <<>>)

get_format_description(sb) ==
    IF sb.format = "none" THEN [tag |-> "None"] ELSE [tag |-> "Some"]

\* Mutant: the status of the parameter-set queries is ignored
extract_parameter_sets_unchecked(sb) ==
    [tag |-> "Ok", sps |-> sb.sps, pps |-> sb.pps,
     nal_length_size |-> sb.nal_length_size]

\* called on a non-null format description
extract_parameter_sets(sb) ==
    IF sb.format \in {"no_sps", "no_pps"}
    THEN [tag |-> "ParameterSetFailed", sps |-> <<>>, pps |-> <<>>,
          nal_length_size |-> 0]
    ELSE [tag |-> "Ok", sps |-> sb.sps, pps |-> sb.pps,
          nal_length_size |-> sb.nal_length_size]

\* called on a non-null format description: never NoFormatDescription
get_dimensions(sb) == [tag |-> "Ok", width |-> sb.width, height |-> sb.height]

extract_nal_units(sb) ==
    IF sb.block = "none" THEN Err("NoDataBuffer")
    ELSE IF Len(sb.data) = 0 THEN Ok(<<>>)
    ELSE IF sb.block = "unreadable" THEN Err("DataPointerFailed")
    ELSE LET nal_length_size == IF sb.format = "ok" THEN sb.nal_length_size ELSE 4
         IN  parse_avcc_data(sb.data, nal_length_size)

get_timing(sb) ==
    [pts |-> sb.pts, dts |-> IF sb.dts_valid THEN sb.dts ELSE sb.pts,
     duration |-> sb.duration, timescale |-> sb.timescale]

\* NalExtractor::is_keyframe: the NotSync attachment, else an IDR unit
extractor_is_keyframe(sb) ==
    IF sb.sync = "sync" THEN TRUE
    ELSE IF sb.sync = "not_sync" THEN FALSE
    ELSE LET nals == extract_nal_units(sb)
         IN  nals.tag = "Ok" /\ \E i \in 1..Len(nals.nal_units) : is_idr(nals.nal_units[i])

----------------------------------------------------------------------------
(* The capture pipeline (examples/webcam_cmaf_stream.rs): the encoder's    *)
(* output callback and the final flush of main, both under MUXER_CONTEXT.  *)

FRAGMENT_DURATION_MS == 2000
target_timescale == 90000

\* (x as f64 * 90000.0 / timescale as f64) as i64: exact for the values of
\* the model, so the quotient truncated toward zero
rescale(x, timescale) == TruncDiv(x * target_timescale, timescale)

\* Callbacks handled in a run.
MaxCallbacks == 3

\* What one run of the callback did: the sample buffer, Observe and the
\* pending samples of the muxer when it started, and the steps it took.
Handled(sb, init_called_now, init_written, extract, add_called, args) ==
    [sb |-> sb, ctx_initialized |-> feed.ctx_initialized,
     before |-> Observe(muxer), pending_before |-> muxer.pending_frames,
     configured_before |-> feed.configured,
     init_called_now |-> init_called_now, init_written |-> init_written,
     extract |-> extract, add_called |-> add_called, args |-> args]

\* A file of the output directory written in full: init.mp4 (num 0) or
\* segment_<num>.m4s.
Written(kind, num, data) == [kind |-> kind, num |-> num, data |-> data]

\* The body of compression_output_callback on ctx = (muxer, ctx_initialized)
\* for a sample buffer sb; write_ok tells whether init.mp4 can be written,
\* segment_ok whether the segment file can.
\* r1: the initialization block, r2: the add_frame call.
compression_output_callback(sb, write_ok, segment_ok) ==
    LET delivered == sb.delivered
        try_init == delivered /\ ~feed.ctx_initialized
                      /\ get_format_description(sb).tag = "Some"
                      /\ extract_parameter_sets(sb).tag = "Ok"
                      /\ get_dimensions(sb).tag = "Ok"
        params == [sps |-> extract_parameter_sets(sb).sps,
                   pps |-> extract_parameter_sets(sb).pps,
                   width |-> get_dimensions(sb).width,
                   height |-> get_dimensions(sb).height]
        r1 == IF try_init
              THEN create_init_segment(muxer, params.sps, params.pps,
                                       params.width, params.height)
              ELSE [self |-> muxer, ret |-> <<>>]
        ctx_initialized == feed.ctx_initialized \/ (try_init /\ write_ok)
        extracting == delivered /\ ctx_initialized
        nals == IF extracting THEN extract_nal_units(sb) ELSE Err("NotRun")
        add_called == extracting /\ nals.tag = "Ok"
        timing == get_timing(sb)
        args == IF add_called
                THEN [nal_units |-> nals.nal_units,
                      pts |-> rescale(timing.pts, timing.timescale),
                      dts |-> rescale(timing.dts, timing.timescale),
                      duration |-> rescale(timing.duration, timing.timescale),
                      is_keyframe |-> extractor_is_keyframe(sb)]
                ELSE NoArgs
        r2 == IF add_called
              THEN add_frame(r1.self, args.nal_units, args.pts, args.dts,
                             args.duration, args.is_keyframe)
              ELSE [self |-> r1.self, ret |-> NoneRet]
        panicked == nals.tag = "Panic" \/ r2.ret.tag = "Panic"
        flushed == add_called /\ r2.ret.tag = "Some"
        segment_num == feed.SEGMENT_COUNT + 1
        files == (IF try_init /\ write_ok
                  THEN <<Written("init", 0, r1.ret)>> ELSE <<>>)
                 \o (IF flushed /\ segment_ok
                     THEN <<Written("segment", segment_num, r2.ret.bytes)>>
                     ELSE <<>>)
    IN  /\ muxer' = r2.self
        /\ call' = IF add_called THEN Call("add_frame", args, NoParams)
                   ELSE IF try_init THEN Call("create_init_segment", NoArgs, params)
                   ELSE call
        /\ pre' = IF add_called THEN Observe(r1.self)
                  ELSE IF try_init THEN Observe(muxer)
                  ELSE pre
        /\ ret' = IF add_called THEN r2.ret
                  ELSE IF try_init THEN VecRet(r1.ret)
                  ELSE ret
        /\ emitted' = IF flushed THEN emitted + 1 ELSE emitted
        /\ ret_args' = IF flushed THEN pending_args
                       ELSE IF add_called \/ try_init THEN <<>> ELSE ret_args
        /\ pending_args' = IF ~add_called \/ r2.ret.tag = "Panic" THEN pending_args
                           ELSE IF flushed THEN <<args>>
                           ELSE Append(pending_args, args)
        /\ init_called' = (init_called \/ try_init)
        /\ feed' = [feed EXCEPT
              !.phase = IF panicked THEN "aborted" ELSE @,
              !.ctx_initialized = ctx_initialized,
              !.clock = @ + 1,
              !.configured = @ \/ (delivered /\ sb.format = "ok"),
              !.SEGMENT_COUNT = IF flushed THEN segment_num ELSE @,
              !.downstream = @ \o files,
              !.last = Handled(sb, try_init, try_init /\ write_ok, nals,
                               add_called, args)]

\* Sample buffers the encoder hands to the callback at time `clock` (in
\* seconds: pts = dts = clock at timescale 1, one second long).
Buffer(delivered, format, nal_length_size, block, data, sync) ==
    [delivered |-> delivered, format |-> format,
     sps |-> <<103, 100, 0, 31>>, pps |-> <<104, 238>>,
     nal_length_size |-> nal_length_size, width |-> 1280, height |-> 720,
     block |-> block, data |-> data, sync |-> sync,
     pts |-> feed.clock, dts |-> feed.clock, dts_valid |-> (sync = "sync"),
     duration |-> 1, timescale |-> 1]

KeyData == <<0, 0, 0, 2, 103, 66, 0, 0, 0, 2, 101, 136>>
InterData == <<0, 3, 65, 154, 1>>

SampleBuffers ==
    {Buffer(FALSE, "ok", 4, "data", KeyData, "sync"),
     Buffer(TRUE, "none", 4, "data", KeyData, "sync"),
     Buffer(TRUE, "no_sps", 4, "data", KeyData, "sync"),
     Buffer(TRUE, "no_pps", 4, "data", KeyData, "sync"),
     Buffer(TRUE, "ok", 4, "data", KeyData, "no_attachments"),
     Buffer(TRUE, "ok", 2, "data", InterData, "not_sync"),
     Buffer(TRUE, "ok", 4, "data", <<0, 0, 0, 1, 65, 0, 0, 0, 9, 1>>, "not_sync"),
     Buffer(TRUE, "ok", 4, "data", <<0, 0, 0, 1, 101, 255, 255, 255, 255>>, "sync"),
     Buffer(TRUE, "ok", 2, "data", <<0, 9, 65>>, "not_sync"),
     Buffer(TRUE, "ok", 1, "data", <<1, 65, 5, 65>>, "not_sync"),
     Buffer(TRUE, "ok", 4, "data", <<0, 0, 0, 0, 0, 0, 0, 9, 65>>, "not_sync"),
     Buffer(TRUE, "ok", 4, "none", <<>>, "not_sync")}

NoBuffer ==
    [delivered |-> FALSE, format |-> "none", sps |-> <<>>, pps |-> <<>>,
     nal_length_size |-> 4, width |-> 0, height |-> 0, block |-> "none",
     data |-> <<>>, sync |-> "not_sync", pts |-> 0, dts |-> 0,
     dts_valid |-> FALSE, duration |-> 0, timescale |-> 1]

\* main has stored Some(MuxerContext { muxer, initialized: false, .. })
InitPipeline ==
    /\ InitWith({CmafConfig(FRAGMENT_DURATION_MS, target_timescale)})
    /\ feed = [phase |-> "pipeline", ctx_initialized |-> FALSE, clock |-> 0,
               configured |-> FALSE, SEGMENT_COUNT |-> 0, downstream |-> <<>>,
               last |-> [sb |-> NoBuffer, ctx_initialized |-> FALSE,
                         before |-> Observe(muxer), pending_before |-> <<>>,
                         configured_before |-> FALSE,
                         init_called_now |-> FALSE, init_written |-> FALSE,
                         extract |-> Err("NotRun"), add_called |-> FALSE,
                         args |-> NoArgs]]

Callback ==
    /\ feed.phase = "pipeline"
    /\ feed.clock < MaxCallbacks
    /\ \E sb \in SampleBuffers, write_ok \in BOOLEAN, segment_ok \in BOOLEAN :
          compression_output_callback(sb, write_ok, segment_ok)

\* main: "Flush remaining frames"
MainFlush ==
    /\ feed.phase = "pipeline"
    /\ DoFlush
    /\ \E segment_ok \in BOOLEAN :
          LET r == flush(muxer)
              flushed == r.ret.tag = "Some"
              segment_num == feed.SEGMENT_COUNT + 1
          IN  feed' = [feed EXCEPT
                 !.phase = "done",
                 !.SEGMENT_COUNT = IF flushed THEN segment_num ELSE @,
                 !.downstream = IF flushed /\ segment_ok
                                THEN Append(@, Written("segment", segment_num,
                                                       r.ret.bytes))
                                ELSE @]

NextPipeline == Callback \/ MainFlush

SpecPipeline == InitPipeline /\ [][NextPipeline]_vars

----------------------------------------------------------------------------
(* The streaming pipeline (examples/camera_xoq_stream.rs): the same         *)
(* callback in front of a transport.  write_segment hands each buffer to   *)
(* the transport and reports nothing back; `downstream` lists the buffers  *)
(* in the order of the write_segment calls, numbered by GROUP_COUNT.       *)

XOQ_FRAGMENT_DURATION_MS == 33

\* Mutant: a keyframe segment is sent without the init segment
data_to_send_plain(is_keyframe, init_segment, segment) == segment

\* "For keyframe segments, prepend init segment for late joiners"
data_to_send(is_keyframe, init_segment, segment) ==
    IF is_keyframe /\ init_segment.tag = "Some"
    THEN init_segment.bytes \o segment
    ELSE segment

\* The body of camera_xoq_stream's compression_output_callback on
\* ctx = (muxer, ctx_initialized, init_segment) for a sample buffer sb.
xoq_compression_output_callback(sb) ==
    LET delivered == sb.delivered
        try_init == delivered /\ ~feed.ctx_initialized
                      /\ get_format_description(sb).tag = "Some"
                      /\ extract_parameter_sets(sb).tag = "Ok"
                      /\ get_dimensions(sb).tag = "Ok"
        params == [sps |-> extract_parameter_sets(sb).sps,
                   pps |-> extract_parameter_sets(sb).pps,
                   width |-> get_dimensions(sb).width,
                   height |-> get_dimensions(sb).height]
        r1 == IF try_init
              THEN create_init_segment(muxer, params.sps, params.pps,
                                       params.width, params.height)
              ELSE [self |-> muxer, ret |-> <<>>]
        init_segment == IF try_init THEN SomeRet(r1.ret) ELSE feed.init_segment
        ctx_initialized == feed.ctx_initialized \/ try_init
        extracting == delivered /\ ctx_initialized
        nals == IF extracting THEN extract_nal_units(sb) ELSE Err("NotRun")
        add_called == extracting /\ nals.tag = "Ok"
        timing == get_timing(sb)
        args == IF add_called
                THEN [nal_units |-> nals.nal_units,
                      pts |-> rescale(timing.pts, timing.timescale),
                      dts |-> rescale(timing.dts, timing.timescale),
                      duration |-> rescale(timing.duration, timing.timescale),
                      is_keyframe |-> extractor_is_keyframe(sb)]
                ELSE NoArgs
        r2 == IF add_called
              THEN add_frame(r1.self, args.nal_units, args.pts, args.dts,
                             args.duration, args.is_keyframe)
              ELSE [self |-> r1.self, ret |-> NoneRet]
        panicked == nals.tag = "Panic" \/ r2.ret.tag = "Panic"
        flushed == add_called /\ r2.ret.tag = "Some"
        init_group == feed.SEGMENT_COUNT
        segment_group == IF try_init THEN init_group + 1 ELSE init_group
        sent == (IF try_init THEN <<Written("init", init_group, r1.ret)>>
                 ELSE <<>>)
                \o (IF flushed
                    THEN <<Written("segment", segment_group,
                              data_to_send(args.is_keyframe, init_segment,
                                           r2.ret.bytes))>>
                    ELSE <<>>)
    IN  /\ muxer' = r2.self
        /\ call' = IF add_called THEN Call("add_frame", args, NoParams)
                   ELSE IF try_init THEN Call("create_init_segment", NoArgs, params)
                   ELSE call
        /\ pre' = IF add_called THEN Observe(r1.self)
                  ELSE IF try_init THEN Observe(muxer)
                  ELSE pre
        /\ ret' = IF add_called THEN r2.ret
                  ELSE IF try_init THEN VecRet(r1.ret)
                  ELSE ret
        /\ emitted' = IF flushed THEN emitted + 1 ELSE emitted
        /\ ret_args' = IF flushed THEN pending_args
                       ELSE IF add_called \/ try_init THEN <<>> ELSE ret_args
        /\ pending_args' = IF ~add_called \/ r2.ret.tag = "Panic" THEN pending_args
                           ELSE IF flushed THEN <<args>>
                           ELSE Append(pending_args, args)
        /\ init_called' = (init_called \/ try_init)
        /\ feed' = [feed EXCEPT
              !.phase = IF panicked THEN "aborted" ELSE @,
              !.ctx_initialized = ctx_initialized,
              !.init_segment = init_segment,
              !.clock = @ + 1,
              !.configured = @ \/ (delivered /\ sb.format = "ok"),
              !.SEGMENT_COUNT = @ + Len(sent),
              !.downstream = @ \o sent,
              !.last = Handled(sb, try_init, try_init, nals, add_called, args)]

\* main has stored Some(StreamingContext { muxer, initialized: false,
\* init_segment: None, .. }); GROUP_COUNT is kept in feed.SEGMENT_COUNT
InitXoq ==
    /\ InitWith({CmafConfig(XOQ_FRAGMENT_DURATION_MS, target_timescale)})
    /\ feed = [phase |-> "xoq", ctx_initialized |-> FALSE, clock |-> 0,
               configured |-> FALSE, SEGMENT_COUNT |-> 0, downstream |-> <<>>,
               init_segment |-> NoneRet,
               last |-> [sb |-> NoBuffer, ctx_initialized |-> FALSE,
                         before |-> Observe(muxer), pending_before |-> <<>>,
                         configured_before |-> FALSE,
                         init_called_now |-> FALSE, init_written |-> FALSE,
                         extract |-> Err("NotRun"), add_called |-> FALSE,
                         args |-> NoArgs]]

XoqCallback ==
    /\ feed.phase = "xoq"
    /\ feed.clock < MaxCallbacks
    /\ \E sb \in SampleBuffers : xoq_compression_output_callback(sb)

\* main: "Flush remaining frames"
XoqFlush ==
    /\ feed.phase = "xoq"
    /\ DoFlush
    /\ LET r == flush(muxer)
       IN  feed' = [feed EXCEPT
              !.phase = "done",
              !.SEGMENT_COUNT = IF r.ret.tag = "Some" THEN @ + 1 ELSE @,
              !.downstream = IF r.ret.tag = "Some"
                             THEN Append(@, Written("segment", feed.SEGMENT_COUNT,
                                                    r.ret.bytes))
                             ELSE @]

\* Either pipeline, from its start.
InitDownstream == InitPipeline \/ InitXoq

NextDownstream == Callback \/ MainFlush \/ XoqCallback \/ XoqFlush

SpecDownstream == InitDownstream /\ [][NextDownstream]_vars

----------------------------------------------------------------------------
(* webcam_cmaf_stream with its threads: the encoder may run the callback   *)
(* on several threads at once, and main flushes while callbacks may still  *)
(* be in flight.  Each thread is at a position of its code; a callback     *)
(* takes MUXER_CONTEXT, runs its initialization block, then its frame      *)
(* block, and drops the guard when it returns.                             *)

\* Calls of the callback in one run
MaxDeliveries == 2

CallbackThreads == {"callback_1", "callback_2"}
Threads == CallbackThreads \cup {"main"}

\* Mutant: lock() returns at once, whoever holds the mutex
lock_unguarded(mutex) == TRUE

\* MUXER_CONTEXT.lock(): returns once no thread holds the mutex
lock(mutex) == mutex = "free"

ThreadBuffers ==
    {Buffer(FALSE, "ok", 4, "data", KeyData, "sync"),
     Buffer(TRUE, "ok", 4, "data", KeyData, "sync"),
     Buffer(TRUE, "ok", 2, "data", InterData, "not_sync")}

\* main has stored the context; no callback is running.  `section` counts
\* the guards taken so far and `steps` lists the muxer calls made, each
\* with the thread and the guard it was made under.
InitThreads ==
    /\ InitWith({CmafConfig(FRAGMENT_DURATION_MS, target_timescale)})
    /\ feed = [phase |-> "threads", MUXER_CONTEXT |-> "free",
               pc |-> [t \in Threads |-> IF t = "main" THEN "running" ELSE "idle"],
               sample_buffer |-> [t \in CallbackThreads |-> NoBuffer],
               ctx_initialized |-> FALSE, clock |-> 0, SEGMENT_COUNT |-> 0,
               downstream |-> <<>>, section |-> 0, steps |-> <<>>]

Step(t, op) == [thread |-> t, section |-> feed.section, op |-> op]

\* the encoder calls the callback on thread t: lines 104-117
Deliver(t) ==
    /\ feed.phase = "threads"
    /\ feed.pc[t] = "idle"
    /\ feed.clock < MaxDeliveries
    /\ \E sb \in ThreadBuffers :
          feed' = [feed EXCEPT
             !.clock = @ + 1,
             !.sample_buffer[t] = sb,
             !.pc[t] = IF sb.delivered THEN "lock" ELSE "idle"]
    /\ UNCHANGED <<muxer, call, pre, ret, pending_args, ret_args, emitted,
                   init_called>>

\* let mut ctx_guard = MUXER_CONTEXT.lock().unwrap()
Lock(t) ==
    /\ feed.phase = "threads"
    /\ feed.pc[t] = "lock"
    /\ lock(feed.MUXER_CONTEXT)
    /\ feed' = [feed EXCEPT
          !.MUXER_CONTEXT = t,
          !.section = @ + 1,
          !.pc[t] = IF t = "main" THEN "flush" ELSE "init"]
    /\ UNCHANGED <<muxer, call, pre, ret, pending_args, ret_args, emitted,
                   init_called>>

\* "Get format description and initialize muxer if needed", up to the
\* `if !ctx.initialized { return; }` that follows
InitBlock(t) ==
    /\ feed.phase = "threads"
    /\ feed.pc[t] = "init"
    /\ \E write_ok \in BOOLEAN :
          LET sb == feed.sample_buffer[t]
              try_init == ~feed.ctx_initialized
                            /\ get_format_description(sb).tag = "Some"
                            /\ extract_parameter_sets(sb).tag = "Ok"
                            /\ get_dimensions(sb).tag = "Ok"
              params == [sps |-> extract_parameter_sets(sb).sps,
                         pps |-> extract_parameter_sets(sb).pps,
                         width |-> get_dimensions(sb).width,
                         height |-> get_dimensions(sb).height]
              r1 == create_init_segment(muxer, params.sps, params.pps,
                                        params.width, params.height)
              ctx_initialized == feed.ctx_initialized \/ (try_init /\ write_ok)
          IN  /\ IF try_init
                 THEN DoCreateInitSegment(params)
                 ELSE UNCHANGED <<muxer, call, pre, ret, pending_args,
                                  ret_args, emitted, init_called>>
              /\ feed' = [feed EXCEPT
                    !.ctx_initialized = ctx_initialized,
                    !.downstream = IF try_init /\ write_ok
                                   THEN Append(@, Written("init", 0, r1.ret))
                                   ELSE @,
                    !.steps = IF try_init
                              THEN Append(@, Step(t, "create_init_segment"))
                              ELSE @,
                    !.pc[t] = IF ctx_initialized THEN "frame" ELSE "return"]

\* "Extract NAL units from the encoded frame" to the end of the callback
FrameBlock(t) ==
    /\ feed.phase = "threads"
    /\ feed.pc[t] = "frame"
    /\ \E segment_ok \in BOOLEAN :
          LET sb == feed.sample_buffer[t]
              nals == extract_nal_units(sb)
              add_called == nals.tag = "Ok"
              timing == get_timing(sb)
              args == [nal_units |-> nals.nal_units,
                       pts |-> rescale(timing.pts, timing.timescale),
                       dts |-> rescale(timing.dts, timing.timescale),
                       duration |-> rescale(timing.duration, timing.timescale),
                       is_keyframe |-> extractor_is_keyframe(sb)]
              r2 == add_frame(muxer, args.nal_units, args.pts, args.dts,
                              args.duration, args.is_keyframe)
              flushed == add_called /\ r2.ret.tag = "Some"
              segment_num == feed.SEGMENT_COUNT + 1
          IN  /\ IF add_called
                 THEN DoAddFrame(args)
                 ELSE UNCHANGED <<muxer, call, pre, ret, pending_args,
                                  ret_args, emitted, init_called>>
              /\ feed' = [feed EXCEPT
                    !.phase = IF nals.tag = "Panic" \/ (add_called /\ r2.ret.tag = "Panic")
                              THEN "aborted" ELSE @,
                    !.SEGMENT_COUNT = IF flushed THEN segment_num ELSE @,
                    !.downstream = IF flushed /\ segment_ok
                                   THEN Append(@, Written("segment", segment_num,
                                                          r2.ret.bytes))
                                   ELSE @,
                    !.steps = IF add_called THEN Append(@, Step(t, "add_frame"))
                              ELSE @,
                    !.pc[t] = "return"]

\* the guard is dropped where its scope ends
Unlock(t) ==
    /\ feed.phase = "threads"
    /\ feed.pc[t] = "return"
    /\ feed' = [feed EXCEPT
          !.MUXER_CONTEXT = IF @ = t THEN "free" ELSE @,
          !.pc[t] = IF t = "main" THEN "done" ELSE "idle"]
    /\ UNCHANGED <<muxer, call, pre, ret, pending_args, ret_args, emitted,
                   init_called>>

\* main reaches "Flush remaining frames"
MainArrives ==
    /\ feed.phase = "threads"
    /\ feed.pc["main"] = "running"
    /\ feed' = [feed EXCEPT !.pc["main"] = "lock"]
    /\ UNCHANGED <<muxer, call, pre, ret, pending_args, ret_args, emitted,
                   init_called>>

\* main: ctx.muxer.flush() and the segment file
FlushBlock ==
    /\ feed.phase = "threads"
    /\ feed.pc["main"] = "flush"
    /\ DoFlush
    /\ \E segment_ok \in BOOLEAN :
          LET r == flush(muxer)
              flushed == r.ret.tag = "Some"
              segment_num == feed.SEGMENT_COUNT + 1
          IN  feed' = [feed EXCEPT
                 !.SEGMENT_COUNT = IF flushed THEN segment_num ELSE @,
                 !.downstream = IF flushed /\ segment_ok
                                THEN Append(@, Written("segment", segment_num,
                                                       r.ret.bytes))
                                ELSE @,
                 !.steps = Append(@, Step("main", "flush")),
                 !.pc["main"] = "return"]

NextThreads ==
    \/ \E t \in CallbackThreads : Deliver(t) \/ InitBlock(t) \/ FrameBlock(t)
    \/ \E t \in Threads : Lock(t) \/ Unlock(t)
    \/ MainArrives
    \/ FlushBlock

SpecThreads == InitThreads /\ [][NextThreads]_vars

----------------------------------------------------------------------------
(* parse_avcc_data swept over every value of a unit's first byte: an       *)
(* access unit of one NAL unit is parsed for first byte 0, 1, ..., 255.    *)

\* the length field of width nal_length_size that announces n bytes
LengthPrefix(nal_length_size, n) ==
    SubSeq(<<0, 0, n \div 256, n % 256>>, 5 - nal_length_size, 4)

NalTails == {<<>>, <<255, 7>>}

InitNal ==
    /\ InitWith({OffsetConfig})
    /\ \E tail \in NalTails, w \in {1, 2, 4} :
          feed = [phase |-> "nal", next |-> 0, tail |-> tail,
                  nal_length_size |-> w, data |-> <<>>, result |-> Ok(<<>>),
                  seen |-> {}]

ParseNal ==
    /\ feed.phase = "nal"
    /\ feed.next <= 255
    /\ LET data == <<feed.next>> \o feed.tail
           buffer == LengthPrefix(feed.nal_length_size, Len(data)) \o data
           result == parse_avcc_data(buffer, feed.nal_length_size)
       IN  feed' = [feed EXCEPT
              !.next = @ + 1, !.data = data, !.result = result,
              !.seen = @ \cup {result.nal_units[i].nal_type :
                                  i \in 1..Len(result.nal_units)}]
    /\ UNCHANGED <<muxer, call, pre, ret, pending_args, ret_args, emitted,
                   init_called>>

NextNal == ParseNal

SpecNal == InitNal /\ [][NextNal]_vars

----------------------------------------------------------------------------
(* parse_avcc_data on every short buffer, for every length-field width,    *)
(* and on the sample payloads nal_units_to_avcc builds.                    *)

\* Length of the buffers parsed, and of the NAL unit lists serialized.
MaxAvccLen == 3
MaxUnits == 2

AvccBytes == {0, 1, 2, 101}
AvccWidths == 0..4

RECURSIVE SeqsUpTo(_, _)
SeqsUpTo(S, n) ==
    IF n = 0 THEN {<<>>}
    ELSE LET shorter == SeqsUpTo(S, n - 1)
         IN  shorter \cup {Append(q, x) : q \in shorter, x \in S}

InitAvcc ==
    /\ InitWith({OffsetConfig})
    /\ feed = [phase |-> "avcc", op |-> "none", nal_units |-> <<>>,
               data |-> <<>>, nal_length_size |-> 4, result |-> Ok(<<>>)]

\* one call per run
ParseAvcc ==
    /\ feed.phase = "avcc" /\ feed.op = "none"
    /\ \E data \in SeqsUpTo(AvccBytes, MaxAvccLen), w \in AvccWidths :
          feed' = [feed EXCEPT !.op = "parse", !.nal_units = <<>>,
                               !.data = data, !.nal_length_size = w,
                               !.result = parse_avcc_data(data, w)]
    /\ UNCHANGED <<muxer, call, pre, ret, pending_args, ret_args, emitted,
                   init_called>>

\* a sample payload as add_frame stores it, parsed with a 4-byte length
RoundTripAvcc ==
    /\ feed.phase = "avcc" /\ feed.op = "none"
    /\ \E nal_units \in SeqsUpTo({NalIdr, NalIdr2, NalNonIdr, NalSps, NalPps,
                                  NalSei}, MaxUnits) :
          LET data == nal_units_to_avcc(nal_units)
          IN  feed' = [feed EXCEPT !.op = "round_trip", !.nal_units = nal_units,
                                   !.data = data, !.nal_length_size = 4,
                                   !.result = parse_avcc_data(data, 4)]
    /\ UNCHANGED <<muxer, call, pre, ret, pending_args, ret_args, emitted,
                   init_called>>

NextAvcc == ParseAvcc \/ RoundTripAvcc

SpecAvcc == InitAvcc /\ [][NextAvcc]_vars

----------------------------------------------------------------------------
(* Reading a serialized buffer back.  Offsets are 0-based byte offsets of  *)
(* a box header, found by the position of the box's four-character code    *)
(* and not by any size the writer declared.                                *)

ByteAt(b, i) == IF i \in 1..Len(b) THEN b[i] ELSE 0

\* big-endian two's complement value of the n bytes at offset off
RECURSIVE BeValue(_, _, _, _)
BeValue(b, off, n, acc) ==
    IF n = 0 THEN acc ELSE BeValue(b, off + 1, n - 1, acc * 256 + ByteAt(b, off + 1))

SignedAt(b, off, n) ==
    LET first == ByteAt(b, off + 1)
    IN  BeValue(b, off + 1, n - 1, IF first >= 128 THEN first - 256 ELSE first)

\* a 32-bit field; the sizes and counts read here are below 2^31
U32At(b, off) == SignedAt(b, off, 4)
U16At(b, off) == ByteAt(b, off + 1) * 256 + ByteAt(b, off + 2)

TagAt(b, off) == SubSeq(b, off + 5, off + 8)

TagOffsets(b, tag) == {o \in 0..(Len(b) - 8) : TagAt(b, o) = tag}

\* the first box header carrying tag, -1 when there is none
Find(b, tag) ==
    LET os == TagOffsets(b, tag)
    IN  IF os = {} THEN -1 ELSE CHOOSE o \in os : \A o2 \in os : o <= o2

MoofAt(b) == Find(b, T_moof)
MfhdAt(b) == Find(b, T_mfhd)
TrafAt(b) == Find(b, T_traf)
TfhdAt(b) == Find(b, T_tfhd)
TfdtAt(b) == Find(b, T_tfdt)
TrunAt(b) == Find(b, T_trun)
MdatAt(b) == Find(b, T_mdat)

MfhdSequence(b) == U32At(b, MfhdAt(b) + 12)
TfhdFlags(b) == SubSeq(b, TfhdAt(b) + 10, TfhdAt(b) + 12)
TfdtVersion(b) == ByteAt(b, TfdtAt(b) + 9)
\* the 64-bit field read as two's complement
TfdtTime(b) == SignedAt(b, TfdtAt(b) + 12, 8)
TrunSampleCount(b) == U32At(b, TrunAt(b) + 12)
TrunDataOffset(b) == U32At(b, TrunAt(b) + 16)
TrunEntry(b, i) ==
    LET o == TrunAt(b) + 20 + 16 * (i - 1)
    IN  [duration |-> U32At(b, o), size |-> U32At(b, o + 4),
         flags |-> SubSeq(b, o + 9, o + 12),
         composition_offset |-> SignedAt(b, o + 12, 4)]
MdatPayload(b) == SubSeq(b, MdatAt(b) + 9, Len(b))

\* What a frame's sample must look like, from the add_frame arguments:
\* the slice units (type 1 or 5), each behind its 4-byte length.
RECURSIVE SlicePayload(_)
SlicePayload(nal_units) ==
    IF nal_units = <<>> THEN <<>>
    ELSE LET n == Head(nal_units)
             len == Len(n.data)
         IN  (IF n.nal_type \in {1, 5}
              THEN <<0, 0, len \div 256, len % 256>> \o n.data ELSE <<>>)
                 \o SlicePayload(Tail(nal_units))

ExpectedEntry(a) ==
    [duration |-> a.duration, size |-> Len(SlicePayload(a.nal_units)),
     flags |-> IF a.is_keyframe THEN <<2, 0, 0, 0>> ELSE <<1, 1, 0, 0>>,
     composition_offset |-> a.pts - a.dts]

ExpectedPayloads(as) == Concat([i \in 1..Len(as) |-> SlicePayload(as[i].nal_units)])

\* the fragment b lists exactly the frames as, in order, and carries their data
HoldsFrames(b, as) ==
    /\ TrunSampleCount(b) = Len(as)
    /\ \A i \in 1..Len(as) : TrunEntry(b, i) = ExpectedEntry(as[i])
    /\ MdatPayload(b) = ExpectedPayloads(as)

----------------------------------------------------------------------------
(* Claims.                                                                 *)

\* C1: on an initialized muxer add_frame returns a fragment exactly when,
\* before the call, a sample is pending, the frame is a keyframe and
\* (dts - fragment_base_dts) * 1000 / timescale, truncated, is at least
\* fragment_duration_ms; otherwise it returns None.
C1_AddFrameFlushesIff ==
    (call.op = "add_frame" /\ pre.initialized) =>
        /\ ret.tag \in {"Some", "None"}
        /\ (ret.tag = "Some") <=>
              /\ pre.pending_frame_count > 0
              /\ call.frame.is_keyframe
              /\ ElapsedMsAtLeast(call.frame.dts - pre.fragment_base_dts,
                                  muxer.config.timescale,
                                  muxer.config.fragment_duration_ms)

\* add_frame has flushed on a keyframe that crossed a non-zero threshold
C1_Witness ==
    /\ call.op = "add_frame" /\ pre.initialized /\ ret.tag = "Some"
    /\ muxer.config.fragment_duration_ms > 0

\* C2: when add_frame flushes, the fragment holds exactly the samples pending
\* before the call and not the arriving frame; afterwards one sample is
\* pending, it is the arriving frame, and fragment_base_dts is its dts.
C2_FlushExcludesArrivingFrame ==
    (call.op = "add_frame" /\ ret.tag = "Some") =>
        /\ TrunSampleCount(ret.bytes) = pre.pending_frame_count
        /\ Len(ret_args) = pre.pending_frame_count
        /\ HoldsFrames(ret.bytes, ret_args)
        /\ pending_frame_count(muxer) = 1
        /\ muxer.pending_frames[1] =
              [data |-> SlicePayload(call.frame.nal_units),
               duration |-> call.frame.duration,
               is_sync |-> call.frame.is_keyframe,
               composition_offset |-> call.frame.pts - call.frame.dts]
        /\ call.frame.is_keyframe
        /\ muxer.fragment_base_dts = call.frame.dts

\* add_frame flushed two pending samples that differ from the arriving frame
C2_Witness ==
    /\ call.op = "add_frame" /\ ret.tag = "Some"
    /\ pre.pending_frame_count = 2
    /\ ret_args[1] # call.frame /\ ret_args[2] # call.frame
    /\ call.frame.dts # pre.fragment_base_dts

\* C3: in every emitted segment tfhd sets default-base-is-moof and trun's
\* data_offset, counted from the first byte of moof, is the serialized moof
\* size plus 8: the first payload byte of the segment's mdat.
C3_DataOffsetFromMoof ==
    (ret.tag = "Some") =>
        LET b == ret.bytes
            moof_len == MdatAt(b) - MoofAt(b)
        IN  /\ TrunSampleCount(b) >= 1
            /\ MoofAt(b) >= 0 /\ MdatAt(b) > MoofAt(b)
            /\ TfhdFlags(b) = <<2, 0, 0>>
            /\ TrunDataOffset(b) = moof_len + 8
            /\ SubSeq(b, MoofAt(b) + TrunDataOffset(b) + 1, Len(b))
                  = ExpectedPayloads(ret_args)

\* a segment of two samples with a non-empty payload was emitted
C3_Witness ==
    /\ ret.tag = "Some"
    /\ TrunSampleCount(ret.bytes) = 2
    /\ Len(ExpectedPayloads(ret_args)) > 0

\* C4 as stated: data_offset is the number of bytes of the fragment before
\* the first mdat payload byte, the fragment's styp box included.
C4_DataOffsetCountsStyp ==
    (ret.tag = "Some") => TrunDataOffset(ret.bytes) = MdatAt(ret.bytes) + 8

\* C4 as amended: data_offset is the number of bytes from the first byte of
\* moof to the first mdat payload byte: the moof header, mfhd, the traf
\* header, tfhd, tfdt, the trun itself and the 8-byte mdat header; the
\* 32-byte styp box before moof is not counted.
C4_DataOffsetExcludesStyp ==
    (ret.tag = "Some") =>
        LET b == ret.bytes
        IN  /\ MoofAt(b) = 32
            /\ TagAt(b, 0) = T_styp
            /\ TrunDataOffset(b) = (MdatAt(b) + 8) - MoofAt(b)
            /\ TrunDataOffset(b) =
                  8 + (TrafAt(b) - MfhdAt(b)) + 8 + (TfdtAt(b) - TfhdAt(b))
                    + (TrunAt(b) - TfdtAt(b)) + (MdatAt(b) - TrunAt(b)) + 8
            /\ MfhdAt(b) = MoofAt(b) + 8
            /\ TfhdAt(b) = TrafAt(b) + 8

\* a segment was emitted whose styp box precedes moof
C4_Witness ==
    /\ ret.tag = "Some"
    /\ TagAt(ret.bytes, 0) = T_styp
    /\ MoofAt(ret.bytes) > 0

\* C5: sequence_number is 1 plus the number of fragments emitted, the k-th
\* emitted fragment carries k in its mfhd, and an add_frame that returns
\* None leaves sequence_number unchanged.
C5_SequenceNumberCountsFragments ==
    /\ sequence_number(muxer) = 1 + emitted
    /\ (ret.tag = "Some") => MfhdSequence(ret.bytes) = emitted
    /\ (call.op = "add_frame" /\ ret.tag = "None") =>
          sequence_number(muxer) = pre.sequence_number

\* the second fragment was emitted after frames were added without a flush
C5_Witness ==
    /\ ret.tag = "Some" /\ emitted = 2
    /\ Len(ret_args) = 2

\* C6: the tfdt of every emitted fragment, a version-1 64-bit field, is the
\* dts of the add_frame call that contributed the fragment's first sample
\* (a negative dts is stored as its two's complement).
C6_TfdtIsFirstSampleDts ==
    (ret.tag = "Some") =>
        /\ TfdtVersion(ret.bytes) = 1
        /\ TfdtTime(ret.bytes) = ret_args[1].dts

\* flush returned a second fragment whose first sample arrived while the
\* first fragment was flushed, and whose samples have different dts
C6_Witness ==
    /\ ret.tag = "Some" /\ call.op = "flush" /\ emitted = 2
    /\ Len(ret_args) = 2
    /\ ret_args[1].dts # ret_args[2].dts

(* Box trees.  A leaf names its tag and the length of its body (-1: the    *)
(* body is measured some other way); a container names the offset of its   *)
(* first child and its children in order.  Body lengths are those of       *)
(* ISO/IEC 14496-12 for the versions and flags written.                    *)

Leaf(tag, body) == [tag |-> tag, hdr |-> 0, body |-> body, kids |-> <<>>]
Node(tag, hdr, kids) == [tag |-> tag, hdr |-> hdr, body |-> -1, kids |-> kids]

\* the boxes expect, in order, fill the bytes lo..hi of b exactly: each
\* carries its tag, declares a size that stays inside the range, and its
\* children fill it exactly
RECURSIVE Tiles(_, _, _, _)
Tiles(b, lo, hi, expect) ==
    IF expect = <<>> THEN lo = hi
    ELSE LET e == Head(expect)
             sz == U32At(b, lo)
         IN  /\ lo + 8 <= hi
             /\ TagAt(b, lo) = e.tag
             /\ sz >= 8
             /\ lo + sz <= hi
             /\ IF e.kids # <<>> THEN Tiles(b, lo + e.hdr, lo + sz, e.kids)
                ELSE e.body = -1 \/ sz = 8 + e.body
             /\ Tiles(b, lo + sz, hi, Tail(expect))

RECURSIVE SumSizes(_, _)
SumSizes(b, n) == IF n = 0 THEN 0 ELSE SumSizes(b, n - 1) + TrunEntry(b, n).size

MediaTree(b) ==
    <<Leaf(T_styp, -1),
      Node(T_moof, 8,
           <<Leaf(T_mfhd, 8),
             Node(T_traf, 8,
                  <<Leaf(T_tfhd, 8), Leaf(T_tfdt, 12),
                    Leaf(T_trun, 12 + 16 * TrunSampleCount(b))>>)>>),
      Leaf(T_mdat, SumSizes(b, TrunSampleCount(b)))>>

InitTree ==
    <<Leaf(T_ftyp, -1),
      Node(T_moov, 8,
           <<Leaf(T_mvhd, 100),
             Node(T_trak, 8,
                  <<Leaf(T_tkhd, 84),
                    Node(T_mdia, 8,
                         <<Leaf(T_mdhd, 24),
                           Leaf(T_hdlr, 24 + 13),
                           Node(T_minf, 8,
                                <<Leaf(T_vmhd, 12),
                                  Node(T_dinf, 8,
                                       <<Node(T_dref, 16, <<Leaf(T_url, 4)>>)>>),
                                  Node(T_stbl, 8,
                                       <<Node(T_stsd, 16,
                                              <<Node(T_avc1, 86,
                                                     <<Leaf(T_avcC, -1)>>)>>),
                                         Leaf(T_stts, 8), Leaf(T_stsc, 8),
                                         Leaf(T_stsz, 12), Leaf(T_stco, 8)
                                       >>)>>)>>)>>),
             Node(T_mvex, 8, <<Leaf(T_trex, 24)>>)>>)>>

\* the avcC box of b holds one SPS and one PPS behind 2-byte lengths and
\* ends where the PPS ends
AvcCHolds(b, sps, pps) ==
    LET a == Find(b, T_avcC)
        sps_len == U16At(b, a + 14)
        pps_at == a + 16 + sps_len
        pps_len == U16At(b, pps_at + 1)
    IN  /\ a >= 0
        /\ SubSeq(b, a + 17, a + 16 + sps_len) = sps
        /\ ByteAt(b, pps_at + 1) = 1
        /\ SubSeq(b, pps_at + 4, pps_at + 3 + pps_len) = pps
        /\ U32At(b, a) = (pps_at + 3 + pps_len) - a

\* the frames of group g (from 1) of a feed: their indices, first to last
GroupFirst(g) == Sum(SubSeq(feed.group_sizes, 1, g - 1))
GroupPayload(g) ==
    Concat([i \in 1..feed.group_sizes[g] |->
               <<0, 0, 0, 2, IF i = 1 THEN 101 ELSE 65, GroupFirst(g) + i - 1>>])

\* C7: N >= 2 keyframe-aligned groups fed in non-decreasing DTS order and
\* then one flush() give exactly N fragments: fragment i < N is returned by
\* the add_frame that submits the first frame of group i + 1 and holds
\* exactly the frames of group i, and flush() returns the last.  In the
\* example (60 frames, keyframes at 0 and 30) the fragment of frames 0-29 is
\* returned when frame 30 arrives and flush() returns frames 30-59.
C7_OneFragmentPerGroup ==
    LET n_groups == Len(feed.group_sizes)
    IN  (feed.phase \in {"feed", "done"}) =>
        /\ emitted = IF feed.phase = "done" THEN n_groups
                     ELSE IF n_groups = 0 THEN 0 ELSE n_groups - 1
        /\ (ret.tag = "Some") <=>
              \/ call.op = "flush"
              \/ /\ call.op = "add_frame" /\ call.frame.is_keyframe
                 /\ n_groups >= 2
        /\ (ret.tag = "Some") =>
              /\ TrunSampleCount(ret.bytes) = feed.group_sizes[emitted]
              /\ MdatPayload(ret.bytes) = GroupPayload(emitted)
              /\ \A i \in 1..feed.group_sizes[emitted] :
                    TrunEntry(ret.bytes, i).flags =
                        IF i = 1 THEN <<2, 0, 0, 0>> ELSE <<1, 1, 0, 0>>
        /\ (feed.scenario = ExampleScenario /\ ret.tag = "Some") =>
              /\ TrunSampleCount(ret.bytes) = 30
              /\ call.op = "add_frame" => Fed = 31 /\ call.frame.dts = 90000
              /\ call.op = "flush" => Fed = 60
        /\ (feed.phase = "done") => n_groups >= 2 /\ ret.tag = "Some"

\* the example ran to its end: two fragments, the second from flush()
C7_Witness ==
    /\ feed.phase = "done"
    /\ feed.scenario = ExampleScenario
    /\ feed.group_sizes = <<30, 30>>
    /\ emitted = 2

\* C8: in every emitted media segment each box declares the number of bytes
\* it occupies, each container's size is 8 plus the sizes of its children,
\* and styp, moof and mdat together fill the buffer.
C8_MediaBoxSizes ==
    (ret.tag = "Some") =>
        LET b == ret.bytes
            styp == U32At(b, 0)
            moof == U32At(b, styp)
            mdat == U32At(b, styp + moof)
        IN  /\ Tiles(b, 0, Len(b), MediaTree(b))
            /\ styp = MoofAt(b)
            /\ styp + moof = MdatAt(b)
            /\ styp + moof + mdat = Len(b)
            /\ mdat = 8 + Len(ExpectedPayloads(ret_args))

\* a segment of two samples, one with an empty payload, was emitted
C8_Witness ==
    /\ ret.tag = "Some"
    /\ Len(ret_args) = 2
    /\ TrunEntry(ret.bytes, 1).size # TrunEntry(ret.bytes, 2).size
    /\ TrunEntry(ret.bytes, 2).size = 0

\* C9: create_init_segment returns ftyp followed by exactly one moov, every
\* box and nested box declaring the length it occupies and the two sizes
\* adding up to the buffer length; afterwards is_initialized() is true.
C9_InitSegmentLayout ==
    (call.op = "create_init_segment") =>
        LET b == ret.bytes
        IN  /\ ret.tag = "Vec"
            /\ TagAt(b, 0) = T_ftyp
            /\ (U32At(b, 0) - 16) % 4 = 0
            /\ TagAt(b, U32At(b, 0)) = T_moov
            /\ U32At(b, 0) + U32At(b, U32At(b, 0)) = Len(b)
            /\ Tiles(b, 0, Len(b), InitTree)
            /\ AvcCHolds(b, call.params.sps, call.params.pps)
            /\ is_initialized(muxer)

\* an init segment was made from a 3-byte SPS (the fallback profile bytes)
\* and a non-empty PPS
C9_Witness ==
    /\ call.op = "create_init_segment"
    /\ Len(call.params.sps) = 3
    /\ Len(call.params.pps) = 4
    /\ call.params.width = 65537

\* C10: before create_init_segment has been called every add_frame and
\* every flush returns None and changes nothing: no sample is pending,
\* sequence_number is 1, fragment_base_dts keeps its value, and no fragment
\* has been emitted; the fragments emitted later hold only frames that were
\* submitted after initialization.
C10_NothingBeforeInit ==
    /\ ~init_called =>
          /\ ~is_initialized(muxer)
          /\ ret.tag = "None"
          /\ pending_frame_count(muxer) = 0
          /\ sequence_number(muxer) = 1
          /\ muxer.fragment_base_dts = 0
          /\ emitted = 0
          /\ call.op \in {"add_frame", "flush"} => Observe(muxer) = pre
    /\ pending_frame_count(muxer) = Len(pending_args)
    /\ (ret.tag = "Some") => HoldsFrames(ret.bytes, ret_args)

\* a keyframe was submitted before initialization
C10_Witness ==
    /\ ~init_called
    /\ call.op = "add_frame"
    /\ call.frame.is_keyframe
    /\ call.frame.dts # 0

----------------------------------------------------------------------------
(* Claims on the stored parameter sets, the flush conditions and the       *)
(* samples of a fragment.                                                  *)

\* C11: the parameter sets are set exactly once: create_init_segment takes
\* effect only on an uninitialized muxer, and once SPS, PPS, width and
\* height are stored no later call changes them.
C11_ParameterSetsSetOnce ==
    [][is_initialized(muxer) =>
          /\ muxer'.sps = muxer.sps
          /\ muxer'.pps = muxer.pps
          /\ muxer'.width = muxer.width
          /\ muxer'.height = muxer.height]_vars

\* C12: add_frame never returns a fragment when nothing is pending before
\* the call (the first frame after initialization or after any flush),
\* whatever is_keyframe, dts and fragment_duration_ms are, and never returns
\* one for a frame that is not a keyframe.
C12_NeverFlushesOnFirstSample ==
    (call.op = "add_frame") =>
        /\ (pre.pending_frame_count = 0) => ret.tag = "None"
        /\ (~call.frame.is_keyframe) => ret.tag = "None"

\* a keyframe arrived right after a fragment was emitted, with a target
\* duration of 0 ms, when nothing was pending, and was not flushed
C12_Witness ==
    /\ call.op = "add_frame" /\ pre.initialized
    /\ pre.pending_frame_count = 0 /\ call.frame.is_keyframe
    /\ emitted >= 1
    /\ muxer.config.fragment_duration_ms = 0
    /\ ret.tag = "None" /\ pending_frame_count(muxer) = 1

\* C13: flush() returns a fragment exactly when a sample is pending before
\* the call; the fragment holds all pending samples; afterwards nothing is
\* pending, so a flush() that directly follows a flush() returns None and
\* leaves sequence_number unchanged.
C13_FlushIffPending ==
    /\ []((call.op = "flush") =>
            /\ (ret.tag = "Some") <=> (pre.pending_frame_count > 0)
            /\ ret.tag \in {"Some", "None"}
            /\ (ret.tag = "Some") =>
                  /\ TrunSampleCount(ret.bytes) = pre.pending_frame_count
                  /\ Len(ret_args) = pre.pending_frame_count
                  /\ HoldsFrames(ret.bytes, ret_args)
            /\ (ret.tag = "None") => sequence_number(muxer) = pre.sequence_number
            /\ pending_frame_count(muxer) = 0)
    /\ [][(call.op = "flush" /\ call'.op = "flush") =>
             /\ ret'.tag = "None"
             /\ sequence_number(muxer') = sequence_number(muxer)]_vars

\* flush() returned a fragment of the two samples that were pending
C13_Witness ==
    /\ call.op = "flush" /\ ret.tag = "Some"
    /\ pre.pending_frame_count = 2
    /\ pending_frame_count(muxer) = 0

\* sizes of the first n trun entries of b, summed
RECURSIVE TrunSizes(_, _)
TrunSizes(b, n) == IF n = 0 THEN 0 ELSE TrunSizes(b, n - 1) + TrunEntry(b, n).size

\* C15: in every emitted fragment trun has one entry per pending sample in
\* submission order, entry i carries the byte length of sample i's payload
\* and the duration passed to add_frame, mdat carries the payloads in the
\* same order, and the entry sizes sum to the mdat size minus 8.
C15_TrunAndMdatInSubmissionOrder ==
    (ret.tag = "Some") =>
        LET b == ret.bytes
            n == TrunSampleCount(b)
            start(i) == TrunSizes(b, i - 1)
        IN  /\ n = Len(ret_args)
            /\ \A i \in 1..n :
                  /\ TrunEntry(b, i).duration = ret_args[i].duration
                  /\ TrunEntry(b, i).size = Len(SlicePayload(ret_args[i].nal_units))
                  /\ SubSeq(MdatPayload(b), start(i) + 1, start(i) + TrunEntry(b, i).size)
                        = SlicePayload(ret_args[i].nal_units)
            /\ TrunSizes(b, n) = U32At(b, MdatAt(b)) - 8
            /\ TrunSizes(b, n) = Len(MdatPayload(b))

\* a fragment of two samples with different payloads and durations
C15_Witness ==
    /\ ret.tag = "Some" /\ Len(ret_args) = 2
    /\ SlicePayload(ret_args[1].nal_units) # SlicePayload(ret_args[2].nal_units)
    /\ SlicePayload(ret_args[1].nal_units) # <<>>
    /\ SlicePayload(ret_args[2].nal_units) # <<>>
    /\ ret_args[1].duration # ret_args[2].duration

\* the NAL units of a frame that are coded slices, in input order
SliceUnits(nal_units) ==
    SelectSeq(nal_units, LAMBDA n : n.data[1] % 32 = 1 \/ n.data[1] % 32 = 5)

\* C16: the payload stored for a sample is, in input order, the 4-byte
\* big-endian length and the data of exactly the frame's NAL units of type
\* 1 or 5; units of any other type contribute nothing, so the sample size
\* is the sum of 4 + length over the slice units.
C16_SamplePayloadIsSlicesOnly ==
    (call.op = "add_frame" /\ pre.initialized /\ ret.tag # "Panic") =>
        LET stored == muxer.pending_frames[Len(muxer.pending_frames)].data
            slices == SliceUnits(call.frame.nal_units)
            prefixed(i) == <<0, 0, Len(slices[i].data) \div 256,
                             Len(slices[i].data) % 256>> \o slices[i].data
        IN  /\ stored = Concat([i \in 1..Len(slices) |-> prefixed(i)])
            /\ Len(stored) = SumLen([i \in 1..Len(slices) |-> slices[i].data])
                                + 4 * Len(slices)

\* a frame of an SPS, a PPS and two slices of types 5 and 1 was stored
C16_Witness ==
    /\ call.op = "add_frame" /\ pre.initialized
    /\ Len(call.frame.nal_units) = 4
    /\ Len(SliceUnits(call.frame.nal_units)) = 2
    /\ SliceUnits(call.frame.nal_units)[1].nal_type = 5
    /\ SliceUnits(call.frame.nal_units)[2].nal_type = 1
    /\ Len(muxer.pending_frames[Len(muxer.pending_frames)].data) > 0

\* C17: each trun sample's flags word follows only from the is_keyframe
\* passed to add_frame: 0x02000000 for a sync sample, 0x01010000 for a
\* non-sync sample, and no other value.
C17_SampleFlagsFollowKeyframe ==
    (ret.tag = "Some") =>
        \A i \in 1..TrunSampleCount(ret.bytes) :
            TrunEntry(ret.bytes, i).flags =
                IF ret_args[i].is_keyframe THEN <<2, 0, 0, 0>> ELSE <<1, 1, 0, 0>>

\* a fragment holding a sync sample and a non-sync sample whose only slice
\* is an IDR slice
C17_Witness ==
    /\ ret.tag = "Some" /\ Len(ret_args) = 2
    /\ ret_args[1].is_keyframe /\ ~ret_args[2].is_keyframe
    /\ \E i \in 1..Len(ret_args[2].nal_units) : ret_args[2].nal_units[i].nal_type = 5

\* C18: the composition offset written to trun for a sample is pts - dts of
\* the add_frame call that created it, for every pts and dts, also when
\* pts < dts and when the difference does not fit a signed 32-bit field.
C18_CompositionOffsetIsPtsMinusDts ==
    (ret.tag = "Some") =>
        \A i \in 1..TrunSampleCount(ret.bytes) :
            LET written == TrunEntry(ret.bytes, i).composition_offset
            IN  <<written \div 65536, written % 65536>>
                    = WideSub(ret_args[i].pts, ret_args[i].dts)

----------------------------------------------------------------------------
(* Claims on the capture pipeline's frame handler.                         *)

\* the length field of width w at offset off, as the parser reads it
LengthAt(data, off, w) ==
    IF w = 4 /\ ByteAt(data, off + 1) >= 128 THEN 2147483647
    ELSE BeValue(data, off, w, 0)

\* walking the length fields of data from off, some declared length exceeds
\* the bytes that remain after its length field
RECURSIVE DeclaresOversize(_, _, _)
DeclaresOversize(data, w, off) ==
    IF off + w > Len(data) THEN FALSE
    ELSE LET n == LengthAt(data, off, w)
         IN  IF n > Len(data) - (off + w) THEN TRUE
             ELSE DeclaresOversize(data, w, off + w + n)

\* the length-field width extraction uses for a sample buffer
WidthOf(sb) == IF sb.format = "ok" THEN sb.nal_length_size ELSE 4

\* the muxer is as the last callback found it
MuxerAsBefore ==
    /\ Observe(muxer) = feed.last.before
    /\ muxer.pending_frames = feed.last.pending_before

\* C14: when an access unit parsed with length-field width 1, 2 or 4
\* declares a NAL length that exceeds the bytes remaining after its length
\* field, extraction returns BufferTooSmall with no NAL units and without
\* panicking, and the handler drops the frame without calling add_frame:
\* pending frames, sequence_number and fragment_base_dts are unchanged and
\* the pipeline goes on.
C14_OversizeNalIsDropped ==
    LET L == feed.last
    IN  (/\ feed.phase \in {"pipeline", "aborted"}
         /\ L.extract.tag # "NotRun"
         /\ L.sb.block = "data"
         /\ WidthOf(L.sb) \in {1, 2, 4}
         /\ DeclaresOversize(L.sb.data, WidthOf(L.sb), 0)) =>
            /\ L.extract = Err("BufferTooSmall")
            /\ ~L.add_called
            /\ muxer.pending_frames = L.pending_before
            /\ sequence_number(muxer) = L.before.sequence_number
            /\ muxer.fragment_base_dts = L.before.fragment_base_dts
            /\ feed.phase = "pipeline"

\* C20 as stated: while the format description or the parameter sets are
\* unavailable for a frame, create_init_segment is not called, the muxer
\* stays uninitialized with nothing pending and sequence_number 1, and the
\* frame is dropped without add_frame; the first later frame that comes with
\* configuration initializes the muxer and is itself muxed.
C20_FirstConfiguredFrameIsMuxed ==
    LET L == feed.last
    IN  /\ (~feed.configured) =>
              /\ ~is_initialized(muxer)
              /\ pending_frame_count(muxer) = 0
              /\ sequence_number(muxer) = 1
        /\ (feed.phase # "done" /\ feed.clock > 0 /\ L.sb.delivered) =>
              /\ (~L.ctx_initialized /\ L.sb.format # "ok") =>
                    ~L.init_called_now /\ ~L.add_called /\ MuxerAsBefore
              /\ (~L.configured_before /\ L.sb.format = "ok") =>
                    /\ L.init_called_now /\ is_initialized(muxer)
                    /\ L.add_called
                    /\ pending_frame_count(muxer) = 1

\* C20 as amended: the first part as stated (one attempt per arriving
\* frame, no retry inside the handler).  A frame that comes with
\* configuration while the handler is uninitialized always calls
\* create_init_segment, but it is itself muxed only if init.mp4 could be
\* written and its NAL units could be extracted; otherwise it is dropped,
\* and after a failed write the handler stays uninitialized, so that the
\* next frame with configuration calls create_init_segment again.
C20_NoConfigKeepsUninitialized ==
    LET L == feed.last
    IN  /\ (~feed.configured) =>
              /\ ~is_initialized(muxer)
              /\ pending_frame_count(muxer) = 0
              /\ sequence_number(muxer) = 1
        /\ (feed.phase # "done" /\ feed.clock > 0 /\ L.sb.delivered) =>
              /\ (~L.ctx_initialized /\ L.sb.format # "ok") =>
                    ~L.init_called_now /\ ~L.add_called /\ MuxerAsBefore
              /\ (~L.ctx_initialized /\ L.sb.format = "ok") =>
                    /\ L.init_called_now /\ is_initialized(muxer)
                    /\ L.add_called <=> (L.init_written /\ L.extract.tag = "Ok")
                    /\ feed.ctx_initialized <=> L.init_written
                    /\ L.add_called =>
                          /\ pending_frame_count(muxer) = 1 + Len(L.pending_before)
                          /\ call = Call("add_frame", L.args, NoParams)
                    /\ ~L.add_called => muxer.pending_frames = L.pending_before

\* after frames dropped for want of configuration, the first frame that
\* comes with configuration has initialized the muxer and is pending
C20_Witness ==
    /\ feed.phase = "pipeline" /\ feed.clock >= 2
    /\ feed.last.sb.delivered /\ feed.last.sb.format = "ok"
    /\ ~feed.last.configured_before
    /\ feed.last.init_called_now /\ feed.last.add_called
    /\ pending_frame_count(muxer) = 1 /\ sequence_number(muxer) = 1

\* the low five bits of a byte, bit by bit
LowFiveBits(b) ==
    (b % 2) + 2 * ((b \div 2) % 2) + 4 * ((b \div 4) % 2) + 8 * ((b \div 8) % 2)
        + 16 * ((b \div 16) % 2)

\* C19: the type tag of every extracted NAL unit is the low 5 bits of its
\* first byte, and the predicates follow from the tag alone: is_idr iff 5,
\* is_sps iff 7, is_pps iff 8, is_slice iff 1 or 5; so is_idr implies
\* is_slice, parameter sets are never slices, and is_idr, is_sps and is_pps
\* exclude one another.
C19_PredicatesFollowTypeTag ==
    (feed.phase = "nal" /\ feed.next > 0) =>
        /\ feed.result.tag = "Ok"
        /\ Len(feed.result.nal_units) = 1
        /\ LET n == feed.result.nal_units[1]
               tag == LowFiveBits(feed.data[1])
           IN  /\ n.data = feed.data
               /\ n.nal_type = tag
               /\ is_idr(n) <=> (tag = 5)
               /\ is_sps(n) <=> (tag = 7)
               /\ is_pps(n) <=> (tag = 8)
               /\ is_slice(n) <=> (tag = 1 \/ tag = 5)
               /\ is_idr(n) => is_slice(n)
               /\ (is_sps(n) \/ is_pps(n)) => ~is_slice(n)
               /\ ~(is_idr(n) /\ is_sps(n))
               /\ ~(is_idr(n) /\ is_pps(n))
               /\ ~(is_sps(n) /\ is_pps(n))

\* all 256 first bytes were parsed behind a 2-byte length field, all 32
\* tags were seen, and the last unit carries tag 31 and further bytes
C19_Witness ==
    /\ feed.phase = "nal" /\ feed.next = 256
    /\ feed.nal_length_size = 2
    /\ feed.seen = 0..31
    /\ feed.result.nal_units[1].nal_type = 31
    /\ Len(feed.data) = 3

----------------------------------------------------------------------------
(* Claims about what the pipelines hand downstream.                        *)

\* b is an initialization segment: ftyp and moov, nothing else
IsInitSegment(b) == Tiles(b, 0, Len(b), InitTree)

\* b is one media segment: styp, moof and mdat, nothing else
IsMediaSegment(b) == Tiles(b, 0, Len(b), MediaTree(b))

\* b is init followed by one media segment
IsInitThenMedia(b, init) ==
    /\ Len(b) > Len(init)
    /\ SubSeq(b, 1, Len(init)) = init
    /\ IsMediaSegment(SubSeq(b, Len(init) + 1, Len(b)))

\* the run is one of camera_xoq_stream
IsXoq == "init_segment" \in DOMAIN feed

IsPipelineRun == "downstream" \in DOMAIN feed

----------------------------------------------------------------------------
(* Claims about AVCC parsing.                                              *)

\* every unit of result lies inside data, behind its length field, in order
RECURSIVE UnitsInside(_, _, _, _)
UnitsInside(data, w, offset, nal_units) ==
    IF nal_units = <<>> THEN offset <= Len(data)
    ELSE LET n == Len(Head(nal_units).data)
         IN  /\ offset + w + n <= Len(data)
             /\ SubSeq(data, offset + w + 1, offset + w + n) = Head(nal_units).data
             /\ UnitsInside(data, w, offset + w + n, Tail(nal_units))

\* C22: parse_avcc_data is total: for every buffer and every length-field
\* width it returns Ok or Err without panicking and without reading outside
\* the buffer, also for a unit of declared length 0, for trailing bytes
\* shorter than a length field, and for a width outside {1, 2, 4}.
C22_ParseAvccIsTotal ==
    (feed.phase = "avcc" /\ feed.op = "parse") =>
        /\ feed.result.tag \in {"Ok", "InvalidNalLength", "BufferTooSmall"}
        /\ feed.result.tag = "Ok" =>
              UnitsInside(feed.data, feed.nal_length_size, 0,
                          feed.result.nal_units)

\* the coded-slice units of a list, in order
RECURSIVE SliceUnitsOf(_)
SliceUnitsOf(nal_units) ==
    IF nal_units = <<>> THEN <<>>
    ELSE (IF Head(nal_units).nal_type \in {1, 5} THEN <<Head(nal_units)>>
          ELSE <<>>) \o SliceUnitsOf(Tail(nal_units))

\* C29: for units whose type tag is the low 5 bits of their non-empty
\* data, parsing the payload nal_units_to_avcc builds with a 4-byte length
\* field returns exactly the coded-slice units of the list, in order, with
\* the same data and type tags.
C29_AvccRoundTrip ==
    (feed.phase = "avcc" /\ feed.op = "round_trip"
       /\ \A i \in 1..Len(feed.nal_units) :
             /\ feed.nal_units[i].data # <<>>
             /\ feed.nal_units[i].nal_type = feed.nal_units[i].data[1] % 32) =>
        /\ feed.result.tag = "Ok"
        /\ feed.result.nal_units = SliceUnitsOf(feed.nal_units)

\* a parameter set between two different slices went through the round trip
C29_Witness ==
    /\ feed.phase = "avcc" /\ feed.op = "round_trip"
    /\ Len(feed.nal_units) = 2
    /\ feed.nal_units[1] = NalSps /\ feed.nal_units[2] = NalNonIdr
    /\ feed.result = Ok(<<NalNonIdr>>)

----------------------------------------------------------------------------
(* Claims about whole runs of the API.                                     *)

IsHistoryRun == feed.phase = "history"

\* the sample add_frame stores for the arguments a
SampleOf(a) ==
    PendingFrame(SlicePayload(a.nal_units), a.duration, a.is_keyframe,
                 a.pts - a.dts)

\* the samples of the fragment b as its trun and mdat give them
SamplesOf(b) ==
    [i \in 1..TrunSampleCount(b) |->
        LET e == TrunEntry(b, i)
            before == SumSizes(b, i - 1)
        IN  PendingFrame(SubSeq(MdatPayload(b), before + 1, before + e.size),
                         e.duration, e.flags = <<2, 0, 0, 0>>,
                         e.composition_offset)]

\* C23: on an initialized muxer every add_frame call appends exactly one
\* sample, also for a frame without slice data; the samples of the emitted
\* fragments in emission order, followed by the pending samples, are the
\* accepted frames in submission order; no emitted fragment is empty.
C23_SamplesAreConserved ==
    IsHistoryRun =>
        /\ Concat([k \in 1..Len(feed.fragments) |->
                      SamplesOf(feed.fragments[k].bytes)])
              \o muxer.pending_frames
             = [i \in 1..Len(feed.accepted) |-> SampleOf(feed.accepted[i])]
        /\ \A k \in 1..Len(feed.fragments) :
              /\ TrunSampleCount(feed.fragments[k].bytes) >= 1
              /\ Len(MdatPayload(feed.fragments[k].bytes))
                    = SumSizes(feed.fragments[k].bytes,
                               TrunSampleCount(feed.fragments[k].bytes))
        /\ (call.op = "add_frame" /\ pre.initialized) =>
              /\ pending_frame_count(muxer) =
                    IF ret.tag = "Some" THEN 1 ELSE pre.pending_frame_count + 1
              /\ muxer.pending_frames[pending_frame_count(muxer)]
                    = SampleOf(call.frame)

\* two fragments were emitted, one holds a sample with an empty payload,
\* and a sample is pending
C23_Witness ==
    /\ IsHistoryRun
    /\ Len(feed.fragments) = 2 /\ Len(feed.accepted) = 3
    /\ pending_frame_count(muxer) = 1
    /\ \E k \in 1..2 :
          \E i \in 1..TrunSampleCount(feed.fragments[k].bytes) :
              SamplesOf(feed.fragments[k].bytes)[i].data = <<>>

\* C25: with DTS submitted in non-decreasing order, every fragment returned
\* by add_frame spans at least the target duration:
\* (dts - base) * 1000 >= fragment_duration_ms * timescale for the dts of
\* the triggering keyframe and the fragment's base DTS; a shorter fragment
\* comes from flush() only.
C25_AddFrameFragmentsSpanTarget ==
    (IsHistoryRun /\ feed.monotone) =>
        \A k \in 1..Len(feed.fragments) :
            LET f == feed.fragments[k]
                spans == (f.dts - TfdtTime(f.bytes)) * 1000
                            >= muxer.config.fragment_duration_ms
                                 * muxer.config.timescale
            IN  /\ f.op = "add_frame" => spans
                /\ ~spans => f.op = "flush"

\* add_frame let a keyframe 2 ticks (0.67 ms) after the base pass and
\* flushed on the next one; flush() then returned a shorter fragment
C25_Witness ==
    /\ IsHistoryRun /\ feed.monotone
    /\ muxer.config.fragment_duration_ms = 1
    /\ Len(feed.fragments) = 2
    /\ feed.fragments[1].op = "add_frame"
    /\ Len(feed.fragments[1].args) = 2
    /\ feed.fragments[1].args[2].is_keyframe
    /\ feed.fragments[1].args[2].dts = feed.fragments[1].args[1].dts + 2
    /\ feed.fragments[2].op = "flush"
    /\ (feed.fragments[2].dts - TfdtTime(feed.fragments[2].bytes)) * 1000
          < muxer.config.fragment_duration_ms * muxer.config.timescale

\* C26: no state of the muxer is terminal: is_initialized() never reverts
\* to false, samples are pending only on an initialized muxer, and after
\* any flush() a later add_frame is accepted, opens a new fragment whose
\* base DTS is that frame's dts when nothing is pending, and the next
\* fragment carries the next sequence number.
C26_NoTerminalState ==
    /\ [](IsHistoryRun =>
            /\ pending_frame_count(muxer) > 0 => is_initialized(muxer)
            /\ init_called => is_initialized(muxer)
            /\ (call.op = "add_frame" /\ pre.initialized) =>
                  /\ ret.tag \in {"Some", "None"}
                  /\ feed.accepted[Len(feed.accepted)] = call.frame
                  /\ muxer.pending_frames[pending_frame_count(muxer)]
                        = SampleOf(call.frame)
                  /\ (pre.pending_frame_count = 0 \/ ret.tag = "Some") =>
                        /\ pending_frame_count(muxer) = 1
                        /\ muxer.fragment_base_dts = call.frame.dts
            /\ \A k \in 1..Len(feed.fragments) :
                  MfhdSequence(feed.fragments[k].bytes) = k
            /\ sequence_number(muxer) = Len(feed.fragments) + 1)
    /\ [][is_initialized(muxer) => is_initialized(muxer')]_vars

\* flush() returned a fragment, a frame added afterwards opened the next
\* one, and a second flush() returned it
C26_Witness ==
    /\ IsHistoryRun
    /\ Len(feed.fragments) = 2
    /\ feed.fragments[1].op = "flush" /\ feed.fragments[2].op = "flush"
    /\ call.op = "flush" /\ ret.tag = "Some"
    /\ TfdtTime(ret.bytes) = feed.fragments[2].args[1].dts
    /\ MfhdSequence(ret.bytes) = 2

\* C27: create_init_segment leaves the pending samples, sequence_number
\* and fragment_base_dts as they are; add_frame and flush leave the stored
\* SPS, PPS, width, height, configuration and track id as they are; an
\* add_frame that does not flush appends to the pending list and changes
\* no sample already pending.
C27_FrameConditions ==
    [][IsHistoryRun =>
        /\ call'.op = "create_init_segment" =>
              /\ muxer'.pending_frames = muxer.pending_frames
              /\ muxer'.sequence_number = muxer.sequence_number
              /\ muxer'.fragment_base_dts = muxer.fragment_base_dts
        /\ call'.op \in {"add_frame", "flush"} =>
              /\ muxer'.sps = muxer.sps /\ muxer'.pps = muxer.pps
              /\ muxer'.width = muxer.width /\ muxer'.height = muxer.height
              /\ muxer'.config = muxer.config
              /\ muxer'.track_id = muxer.track_id
        /\ (call'.op = "add_frame" /\ ret'.tag = "None" /\ muxer.initialized) =>
              /\ Len(muxer'.pending_frames) = Len(muxer.pending_frames) + 1
              /\ SubSeq(muxer'.pending_frames, 1, Len(muxer.pending_frames))
                    = muxer.pending_frames]_vars

\* create_init_segment was called with two samples pending and a fragment
\* already emitted, and the samples are still pending
C27_Witness ==
    /\ IsHistoryRun
    /\ call.op = "create_init_segment"
    /\ pre.initialized /\ pre.pending_frame_count = 2
    /\ pre.sequence_number = 2
    /\ pending_frame_count(muxer) = 2

----------------------------------------------------------------------------
(* Claims about faults.                                                    *)

\* C24: add_frame on an initialized muxer always completes with Some or
\* None: the rescaling (dts - fragment_base_dts) * 1000 / timescale never
\* faults, not with a timescale of 0 and a sample pending, and not when
\* the DTS difference times 1000 leaves the signed 64-bit range.
C24_AddFrameAlwaysCompletes ==
    /\ (call.op = "add_frame" /\ pre.initialized) => ret.tag \in {"Some", "None"}
    /\ "far" \in DOMAIN feed => feed.far.tag # "Panic"

----------------------------------------------------------------------------
(* Claims about the threads of the pipeline.                               *)

\* the threads between taking MUXER_CONTEXT and dropping the guard
InStep == {t \in Threads : feed.pc[t] \in {"init", "frame", "flush", "return"}}

\* the muxer calls of one guard are next to each other and in the order of
\* the code: at most one create_init_segment, then at most one add_frame,
\* or one flush
SerialSteps(steps) ==
    \A i \in 1..Len(steps) :
        /\ i > 1 => steps[i - 1].section <= steps[i].section
        /\ (i > 1 /\ steps[i - 1].section = steps[i].section) =>
              /\ steps[i - 1].thread = steps[i].thread
              /\ steps[i - 1].op = "create_init_segment"
              /\ steps[i].op = "add_frame"
        /\ steps[i].op = "flush" <=> steps[i].thread = "main"

\* C30: every muxer operation of webcam_cmaf_stream runs under the one
\* MUXER_CONTEXT mutex, held for the whole step that handles one access
\* unit (and for main's flush): under any interleaving no two steps
\* overlap and the muxer sees a serial sequence of whole steps.
C30_StepsAreSerialized ==
    /\ [](feed.phase = "threads" =>
            /\ Cardinality(InStep) <= 1
            /\ InStep = {t \in Threads : feed.MUXER_CONTEXT = t}
            /\ SerialSteps(feed.steps))
    /\ [][(feed.phase = "threads" /\ muxer' # muxer) =>
            /\ feed.MUXER_CONTEXT \in Threads
            /\ feed'.MUXER_CONTEXT = feed.MUXER_CONTEXT
            /\ Len(feed'.steps) = Len(feed.steps) + 1
            /\ feed'.steps[Len(feed'.steps)].thread = feed.MUXER_CONTEXT
            /\ feed'.steps[Len(feed'.steps)].section = feed.section]_vars

\* a callback ran its initialization and frame blocks while the other
\* callback and main were waiting for the mutex, and both got it later
C30_Witness ==
    /\ feed.phase = "threads"
    /\ Len(feed.steps) = 4
    /\ feed.steps[1].op = "create_init_segment"
    /\ feed.steps[2].op = "add_frame"
    /\ feed.steps[2].thread = feed.steps[1].thread
    /\ feed.steps[3].op = "add_frame"
    /\ feed.steps[3].thread # feed.steps[2].thread
    /\ feed.steps[4].op = "flush"
    /\ feed.pc["main"] = "done"

====
